---------------------------- MODULE Spec2Model ----------------------------
(***************************************************************************)
(* TinyOS: the TinyFS filesystem, the heap allocator, the input event      *)
(* ring, and the network stack (DHCP, DNS, TCP, HTTP, WebSocket), each as  *)
(* a state machine translated from the C sources.  Every subsystem has its *)
(* own specification; the variables of the other subsystems stay put.      *)
(***************************************************************************)
EXTENDS Integers, Sequences, FiniteSets, TLC

Min(a, b) == IF a < b THEN a ELSE b

(***************************************************************************)
(* TinyFS (src/kernel/fs.c)                                                *)
(***************************************************************************)

\* Scaled sizes.  The source has 512-byte sectors, a 2048-entry FAT,
\* 64 directory slots and 8 open-file slots.
SectorBytes == 2
FatEntries == 4
MaxFiles == 2
MaxOpen == 2
\* Capacity of the block device in sectors (fs_format refuses fewer than 32).
DiskSectors == 32
\* Length of the call sequences explored.
MaxFsCalls == 7

FS_SECTORS_PER_CLUSTER == 4
FS_CLUSTER_SIZE == FS_SECTORS_PER_CLUSTER * SectorBytes
DATA_START_SECTOR == 13
FS_MAGIC == 1413894945
FAT_FREE == 0
FAT_EOF == 65535

FS_O_READ == "R"
FS_O_WRITE == "W"
FS_O_CREATE == "C"
FS_O_TRUNC == "T"
FS_O_APPEND == "A"

VARIABLES
    superblock,     \* cached superblock: [magic, total_clusters, free_clusters]
    fat,            \* cached FAT: cluster -> next cluster | FAT_EOF | FAT_FREE
    root_dir,       \* cached root directory: slot -> [name, size, first_cluster]
    open_files,     \* fd -> [in_use, dirent_idx, size, pos, first_cluster, flags]
    fs_is_mounted,
    disk,           \* the block device: [sb, fat, root, data]
    fs_ret,         \* return value of the last filesystem call
    fs_out,         \* bytes delivered by the last fs_read
    fs_op,          \* the last filesystem call: [op, ...arguments]
    fs_calls        \* number of filesystem calls made so far

fsVars == <<superblock, fat, root_dir, open_files, fs_is_mounted, disk,
            fs_ret, fs_out, fs_op, fs_calls>>

NoName == <<>>
EmptyDirent == [name |-> NoName, size |-> 0, first_cluster |-> 0]
ClosedFile == [in_use |-> FALSE, dirent_idx |-> 0, size |-> 0, pos |-> 0,
               first_cluster |-> 0, flags |-> {}]
ZeroSuperblock == [magic |-> 0, total_clusters |-> 0, free_clusters |-> 0]
ZeroSector == [i \in 1..SectorBytes |-> 0]
\* blk_read: a sector never written reads as zeros.
blk_read(d, sector) == IF sector \in DOMAIN d.data THEN d.data[sector] ELSE ZeroSector

\* The cached state and the device, bundled so that the loops of the source
\* can be written as operators from bundle to bundle.
FsState == [sb |-> superblock, fat |-> fat, root |-> root_dir,
            files |-> open_files, mounted |-> fs_is_mounted, disk |-> disk]

write_superblock(m) == [m EXCEPT !.disk.sb = m.sb]
write_fat(m) == [m EXCEPT !.disk.fat = m.fat]
write_root_dir(m) == [m EXCEPT !.disk.root = m.root]

\* cluster_to_sector without the sectors-per-cluster factor: consecutive
\* clusters overlap on the device.
cluster_to_sector_unscaled(cluster) == DATA_START_SECTOR + cluster

cluster_to_sector(cluster) == DATA_START_SECTOR + cluster * FS_SECTORS_PER_CLUSTER

\* alloc_cluster that starts its scan at cluster 2 and so reports a full
\* volume while cluster 1 is free.
alloc_cluster_pick_from_two(m) ==
    LET free == {i \in 2..(m.sb.total_clusters - 1) : m.fat[i] = FAT_FREE}
    IN  IF free = {} THEN -1 ELSE CHOOSE i \in free : \A j \in free : i <= j

\* First free cluster from 1 up, or -1.
alloc_cluster_pick(m) ==
    LET free == {i \in 1..(m.sb.total_clusters - 1) : m.fat[i] = FAT_FREE}
    IN  IF free = {} THEN -1 ELSE CHOOSE i \in free : \A j \in free : i <= j

alloc_cluster(m) ==
    LET i == alloc_cluster_pick(m)
    IN  IF i < 0 THEN [m |-> m, c |-> -1]
        ELSE [m |-> [m EXCEPT !.fat[i] = FAT_EOF,
                              !.sb.free_clusters = @ - 1],
              c |-> i]

\* free_cluster_chain that releases the first cluster only and forgets the
\* rest of the chain.
free_cluster_chain_first_only(m, start) ==
    IF start # FAT_EOF /\ start # FAT_FREE /\ start < FatEntries
    THEN [m EXCEPT !.fat[start] = FAT_FREE, !.sb.free_clusters = @ + 1]
    ELSE m

RECURSIVE free_cluster_chain(_, _)
free_cluster_chain(m, start) ==
    IF start # FAT_EOF /\ start # FAT_FREE /\ start < FatEntries
    THEN free_cluster_chain([m EXCEPT !.fat[start] = FAT_FREE,
                                      !.sb.free_clusters = @ + 1],
                            m.fat[start])
    ELSE m

find_file(m, name) ==
    LET hit == {i \in 0..(MaxFiles - 1) :
                    m.root[i].name # NoName /\ m.root[i].name = name}
    IN  IF hit = {} THEN -1 ELSE CHOOSE i \in hit : \A j \in hit : i <= j

find_free_dirent(m) ==
    LET free == {i \in 0..(MaxFiles - 1) : m.root[i].name = NoName}
    IN  IF free = {} THEN -1 ELSE CHOOSE i \in free : \A j \in free : i <= j

find_free_fd(m) ==
    LET free == {i \in 0..(MaxOpen - 1) : ~m.files[i].in_use}
    IN  IF free = {} THEN -1 ELSE CHOOSE i \in free : \A j \in free : i <= j

\* "Skip leading slash"
strip_slash(path) == IF path # <<>> /\ path[1] = "/" THEN Tail(path) ELSE path

fs_format(m) ==
    LET data_sectors == DiskSectors - DATA_START_SECTOR
        total_clusters == Min(data_sectors \div FS_SECTORS_PER_CLUSTER, FatEntries)
        sb == [magic |-> FS_MAGIC, total_clusters |-> total_clusters,
               free_clusters |-> total_clusters - 1]
        m1 == [m EXCEPT !.sb = sb,
                        !.fat = [i \in 0..(FatEntries - 1) |->
                                    IF i = 0 THEN FAT_EOF ELSE FAT_FREE],
                        !.root = [i \in 0..(MaxFiles - 1) |-> EmptyDirent],
                        !.files = [i \in 0..(MaxOpen - 1) |-> ClosedFile]]
    IN  IF DiskSectors < 32 THEN [m |-> m, ret |-> -1]
        ELSE [m |-> [write_root_dir(write_fat(write_superblock(m1)))
                        EXCEPT !.mounted = TRUE],
              ret |-> 0]

fs_open_install(m, fd, idx, flags) ==
    [m EXCEPT !.files[fd] =
        [in_use |-> TRUE, dirent_idx |-> idx, size |-> m.root[idx].size,
         pos |-> IF FS_O_APPEND \in flags THEN m.root[idx].size ELSE 0,
         first_cluster |-> m.root[idx].first_cluster, flags |-> flags]]

fs_open(m, rawpath, flags) ==
    LET path == strip_slash(rawpath)
        fd == find_free_fd(m)
        idx == find_file(m, path)
        slot == find_free_dirent(m)
    IN  IF ~m.mounted \/ path = <<>> \/ fd < 0 THEN [m |-> m, ret |-> -1]
        ELSE IF idx < 0
        THEN IF FS_O_CREATE \notin flags \/ slot < 0 THEN [m |-> m, ret |-> -1]
             ELSE LET m1 == [m EXCEPT !.root[slot] =
                                [name |-> path, size |-> 0, first_cluster |-> FAT_EOF]]
                  IN  [m |-> fs_open_install(write_root_dir(m1), fd, slot, flags),
                       ret |-> fd]
        ELSE IF FS_O_TRUNC \in flags /\ m.root[idx].first_cluster # FAT_EOF
        THEN LET m1 == free_cluster_chain(m, m.root[idx].first_cluster)
                 m2 == [m1 EXCEPT !.root[idx].first_cluster = FAT_EOF,
                                  !.root[idx].size = 0]
             IN  [m |-> fs_open_install(write_root_dir(write_fat(m2)), fd, idx, flags),
                  ret |-> fd]
        ELSE [m |-> fs_open_install(m, fd, idx, flags), ret |-> fd]

fs_close(m, fd) ==
    IF fd < 0 \/ fd >= MaxOpen THEN [m |-> m, ret |-> -1]
    ELSE IF ~m.files[fd].in_use THEN [m |-> m, ret |-> -1]
    ELSE [m |-> [m EXCEPT !.files[fd].in_use = FALSE], ret |-> 0]

\* The cluster holding logical cluster number n of a chain, as fs_read walks it.
RECURSIVE read_walk(_, _, _)
read_walk(m, cluster, n) ==
    IF n > 0 /\ cluster # FAT_EOF
    THEN read_walk(m, m.fat[cluster], n - 1)
    ELSE cluster

RECURSIVE fs_read_loop(_, _, _, _)
fs_read_loop(m, fd, len, out) ==
    LET f == m.files[fd]
        cluster == read_walk(m, f.first_cluster, f.pos \div FS_CLUSTER_SIZE)
        cluster_offset == f.pos % FS_CLUSTER_SIZE
        sector_offset == cluster_offset % SectorBytes
        sector == cluster_to_sector(cluster) + (cluster_offset \div SectorBytes)
        to_copy == Min(Min(SectorBytes - sector_offset, len), f.size - f.pos)
        sector_buf == blk_read(m.disk, sector)
    IN  IF ~(len > 0 /\ f.pos < f.size) THEN [m |-> m, out |-> out]
        ELSE IF cluster = FAT_EOF \/ cluster = FAT_FREE THEN [m |-> m, out |-> out]
        ELSE fs_read_loop([m EXCEPT !.files[fd].pos = @ + to_copy], fd,
                          len - to_copy,
                          out \o SubSeq(sector_buf, sector_offset + 1,
                                        sector_offset + to_copy))

fs_read(m, fd, len) ==
    IF fd < 0 \/ fd >= MaxOpen THEN [m |-> m, ret |-> -1, out |-> <<>>]
    ELSE IF ~m.files[fd].in_use \/ FS_O_READ \notin m.files[fd].flags
    THEN [m |-> m, ret |-> -1, out |-> <<>>]
    ELSE LET r == fs_read_loop(m, fd, len, <<>>)
         IN  [m |-> r.m, ret |-> Len(r.out), out |-> r.out]

\* "Navigate to target cluster", extending the chain where it ends.
RECURSIVE write_walk(_, _, _)
write_walk(m, cluster, n) ==
    IF n = 0 THEN [m |-> m, c |-> cluster]
    ELSE IF m.fat[cluster] = FAT_EOF
    THEN LET a == alloc_cluster(m)
         IN  IF a.c < 0 THEN [m |-> m, c |-> -1]
             ELSE write_walk([a.m EXCEPT !.fat[cluster] = a.c], a.c, n - 1)
    ELSE write_walk(m, m.fat[cluster], n - 1)

\* The device completes every request.
DeviceOk == -1
\* `dev` is the number of sector writes of this call that the device still
\* completes before it answers one with an error status (DeviceOk: never).
DeviceFaults == {DeviceOk, 0, 1}

RECURSIVE fs_write_loop(_, _, _, _, _)
fs_write_loop(m, fd, buf, bytes_written, dev) ==
    LET len == Len(buf) - bytes_written
        f == m.files[fd]
        idx == f.dirent_idx
        cluster_num == f.pos \div FS_CLUSTER_SIZE
        cluster_offset == f.pos % FS_CLUSTER_SIZE
        first == IF f.first_cluster = FAT_EOF THEN alloc_cluster(m)
                 ELSE [m |-> m, c |-> f.first_cluster]
        m1 == IF f.first_cluster = FAT_EOF /\ first.c >= 0
              THEN [first.m EXCEPT !.files[fd].first_cluster = first.c,
                                   !.root[idx].first_cluster = first.c]
              ELSE first.m
        walk == write_walk(m1, first.c, cluster_num)
        sector_offset == cluster_offset % SectorBytes
        sector == cluster_to_sector(walk.c) + (cluster_offset \div SectorBytes)
        to_copy == Min(SectorBytes - sector_offset, len)
        old == blk_read(walk.m.disk, sector)
        sector_buf == [i \in 1..SectorBytes |->
                        IF i > sector_offset /\ i <= sector_offset + to_copy
                        THEN buf[bytes_written + i - sector_offset]
                        ELSE old[i]]
        pos == f.pos + to_copy
        m2 == [walk.m EXCEPT !.disk.data = (sector :> sector_buf) @@ @,
                             !.files[fd].pos = pos]
        m3 == IF pos > f.size
              THEN [m2 EXCEPT !.files[fd].size = pos, !.root[idx].size = pos]
              ELSE m2
        short == IF bytes_written > 0 THEN bytes_written ELSE -1
    IN  IF len <= 0
        THEN [m |-> write_superblock(write_root_dir(write_fat(m))),
              ret |-> bytes_written, io_error |-> FALSE]
        ELSE IF first.c < 0 THEN [m |-> m, ret |-> short, io_error |-> FALSE]
        ELSE IF walk.c < 0
        THEN [m |-> write_superblock(write_root_dir(write_fat(walk.m))),
              ret |-> short, io_error |-> FALSE]
        ELSE IF dev = 0
        THEN [m |-> walk.m, ret |-> short, io_error |-> TRUE]
        ELSE fs_write_loop(m3, fd, buf, bytes_written + to_copy,
                           IF dev > 0 THEN dev - 1 ELSE dev)

fs_write(m, fd, buf, dev) ==
    IF fd < 0 \/ fd >= MaxOpen THEN [m |-> m, ret |-> -1, io_error |-> FALSE]
    ELSE IF ~m.files[fd].in_use \/ FS_O_WRITE \notin m.files[fd].flags
    THEN [m |-> m, ret |-> -1, io_error |-> FALSE]
    ELSE fs_write_loop(m, fd, buf, 0, dev)

fs_remove(m, rawpath) ==
    LET path == strip_slash(rawpath)
        idx == find_file(m, path)
        m1 == IF m.root[idx].first_cluster # FAT_EOF
              THEN free_cluster_chain(m, m.root[idx].first_cluster) ELSE m
        m2 == [m1 EXCEPT !.root[idx] = EmptyDirent]
    IN  IF ~m.mounted \/ path = <<>> \/ idx < 0 THEN [m |-> m, ret |-> -1]
        ELSE IF \E i \in 0..(MaxOpen - 1) :
                    m.files[i].in_use /\ m.files[i].dirent_idx = idx
        THEN [m |-> m, ret |-> -1]
        ELSE [m |-> write_superblock(write_root_dir(write_fat(m2))), ret |-> 0]

fs_size(m, fd) ==
    IF fd < 0 \/ fd >= MaxOpen THEN -1
    ELSE IF ~m.files[fd].in_use THEN -1 ELSE m.files[fd].size

FS_SEEK_SET == "SET"
FS_SEEK_CUR == "CUR"
FS_SEEK_END == "END"

fs_seek(m, fd, offset, whence) ==
    LET f == m.files[fd]
        new_pos == CASE whence = FS_SEEK_SET -> offset
                     [] whence = FS_SEEK_CUR -> f.pos + offset
                     [] whence = FS_SEEK_END -> f.size + offset
                     [] OTHER -> -1
        pos == IF new_pos < 0 THEN 0 ELSE new_pos
    IN  IF fd < 0 \/ fd >= MaxOpen THEN [m |-> m, ret |-> -1]
        ELSE IF ~f.in_use THEN [m |-> m, ret |-> -1]
        ELSE IF whence \notin {FS_SEEK_SET, FS_SEEK_CUR, FS_SEEK_END}
        THEN [m |-> m, ret |-> -1]
        ELSE [m |-> [m EXCEPT !.files[fd].pos = pos], ret |-> pos]

\* fs_readdir: the used directory slots in slot order, at most max_entries.
RECURSIVE readdir_scan(_, _, _, _)
readdir_scan(m, i, max_entries, entries) ==
    IF i >= MaxFiles \/ Len(entries) >= max_entries THEN entries
    ELSE readdir_scan(m, i + 1, max_entries,
                      IF m.root[i].name # NoName
                      THEN Append(entries, m.root[i]) ELSE entries)

fs_readdir(m, max_entries) ==
    IF ~m.mounted THEN [ret |-> -1, entries |-> <<>>]
    ELSE LET entries == readdir_scan(m, 0, max_entries, <<>>)
         IN  [ret |-> Len(entries), entries |-> entries]

\* ---- inputs ------------------------------------------------------------
Paths == {<<"a">>, <<"/", "b">>, <<"/">>}
OpenModes == {{FS_O_READ}, {FS_O_WRITE, FS_O_CREATE}, {FS_O_READ, FS_O_WRITE},
              {FS_O_WRITE, FS_O_CREATE, FS_O_TRUNC}}
\* A buffer of n bytes, all different: base+1, base+2, ...
Pattern(base, n) == [i \in 1..n |-> base + i]
WriteLens == {0, 1, SectorBytes + 1, FS_CLUSTER_SIZE + 1}
Buffers == {Pattern(base, n) : base \in {100}, n \in WriteLens}
ReadLens == {1, 3 * FS_CLUSTER_SIZE}

\* ---- actions: one per filesystem call ---------------------------------
FsCommit(r, out, op) ==
    /\ fs_calls < MaxFsCalls
    /\ superblock' = r.m.sb
    /\ fat' = r.m.fat
    /\ root_dir' = r.m.root
    /\ open_files' = r.m.files
    /\ fs_is_mounted' = r.m.mounted
    /\ disk' = r.m.disk
    /\ fs_ret' = r.ret
    /\ fs_out' = out
    /\ fs_op' = op
    /\ fs_calls' = fs_calls + 1

FsFormat == FsCommit(fs_format(FsState), <<>>, [op |-> "format"])

FsOpen(path, flags) ==
    FsCommit(fs_open(FsState, path, flags), <<>>,
             [op |-> "open", path |-> path, flags |-> flags])

FsClose(fd) == FsCommit(fs_close(FsState, fd), <<>>, [op |-> "close", fd |-> fd])

FsRead(fd, len) ==
    LET r == fs_read(FsState, fd, len)
    IN  FsCommit(r, r.out, [op |-> "read", fd |-> fd, len |-> len])

FsWrite(fd, buf, dev) ==
    LET r == fs_write(FsState, fd, buf, dev)
    IN  FsCommit(r, <<>>, [op |-> "write", fd |-> fd, buf |-> buf,
                           io_error |-> r.io_error])

FsRemove(path) ==
    FsCommit(fs_remove(FsState, path), <<>>, [op |-> "remove", path |-> path])

FsInit ==
    /\ superblock = ZeroSuperblock
    /\ fat = [i \in 0..(FatEntries - 1) |-> 0]
    /\ root_dir = [i \in 0..(MaxFiles - 1) |-> EmptyDirent]
    /\ open_files = [i \in 0..(MaxOpen - 1) |-> ClosedFile]
    /\ fs_is_mounted = FALSE
    /\ disk = [sb |-> ZeroSuperblock,
               fat |-> [i \in 0..(FatEntries - 1) |-> 0],
               root |-> [i \in 0..(MaxFiles - 1) |-> EmptyDirent],
               data |-> <<>>]
    /\ fs_ret = 0
    /\ fs_out = <<>>
    /\ fs_op = [op |-> "boot"]
    /\ fs_calls = 0

\* ---- the round trip of one file, call by call --------------------------
VARIABLES
    rt_pc,          \* the next call of the round trip
    rt_buf,         \* the bytes B to store
    rt_fd           \* the descriptor the last open returned

rtVars == <<rt_pc, rt_buf, rt_fd>>

RtBuffers == {Pattern(base, n) : base \in {100, 200},
                                 n \in 0..((FatEntries - 1) * FS_CLUSTER_SIZE)}

RtIdle ==
    /\ rt_pc = "idle"
    /\ rt_buf = <<>>
    /\ rt_fd = -1

RtInit ==
    /\ rt_pc = "format"
    /\ rt_buf \in RtBuffers
    /\ rt_fd = -1

RtFormat == rt_pc = "format" /\ FsFormat /\ rt_pc' = "open_w"
                /\ UNCHANGED <<rt_buf, rt_fd>>

RtOpenW(path) ==
    /\ rt_pc = "open_w"
    /\ FsOpen(path, {FS_O_WRITE, FS_O_CREATE})
    /\ rt_pc' = "write" /\ rt_fd' = fs_ret' /\ UNCHANGED rt_buf

RtWrite == rt_pc = "write" /\ FsWrite(rt_fd, rt_buf, DeviceOk) /\ rt_pc' = "close"
                /\ UNCHANGED <<rt_buf, rt_fd>>

RtClose == rt_pc = "close" /\ FsClose(rt_fd) /\ rt_pc' = "open_r"
                /\ UNCHANGED <<rt_buf, rt_fd>>

RtOpenR ==
    /\ rt_pc = "open_r"
    /\ \E p \in {<<"a">>, <<"/", "b">>} :
            strip_slash(p) = root_dir[open_files[rt_fd].dirent_idx].name
               /\ FsOpen(p, {FS_O_READ})
    /\ rt_pc' = "read" /\ rt_fd' = fs_ret' /\ UNCHANGED rt_buf

RtRead(extra) ==
    /\ rt_pc = "read"
    /\ FsRead(rt_fd, Len(rt_buf) + extra)
    /\ rt_pc' = "done" /\ UNCHANGED <<rt_buf, rt_fd>>

(***************************************************************************)
(* Heap allocator (src/kernel/memory.c)                                    *)
(***************************************************************************)

\* Bytes between __heap_start and __heap_end.
HeapBytes == 176
\* Length of the malloc/free sequences explored.
MaxHeapCalls == 8

HEADER_SIZE == 24
BLOCK_MAGIC == "DEADBEEF"
MIN_BLOCK_SIZE == HEADER_SIZE + 16
ALIGN_SIZE == 16
ALIGN(x) == ((x + (ALIGN_SIZE - 1)) \div ALIGN_SIZE) * ALIGN_SIZE
NULL == -1

VARIABLES
    heap,               \* address -> block header found there (stale ones too)
    heap_head,
    heap_initialized,
    heap_ptrs,          \* every pointer malloc has returned so far
    heap_last,          \* the last call: [op, arg, ret, blocks in the list before]
    heap_calls          \* number of malloc/free calls made so far

heapVars == <<heap, heap_head, heap_initialized, heap_ptrs, heap_last,
              heap_calls>>

\* Addresses are offsets from the aligned heap start.  The heap is the
\* function from the addresses where a header has been written to that header.
heap_init(h) ==
    (0 :> [size |-> (HeapBytes \div ALIGN_SIZE) * ALIGN_SIZE,
           next |-> NULL, is_free |-> TRUE, magic |-> BLOCK_MAGIC]) @@ h

\* "First-fit: find first free block that's big enough"
RECURSIVE malloc_scan(_, _, _)
malloc_scan(h, current, total_size) ==
    IF current = NULL THEN [h |-> h, ptr |-> NULL]
    ELSE IF h[current].magic # BLOCK_MAGIC THEN [h |-> h, ptr |-> NULL]
    ELSE IF h[current].is_free /\ h[current].size >= total_size
    THEN LET new_block == current + total_size
             h1 == IF h[current].size >= total_size + MIN_BLOCK_SIZE
                   THEN (new_block :> [size |-> h[current].size - total_size,
                                       next |-> h[current].next,
                                       is_free |-> TRUE, magic |-> BLOCK_MAGIC])
                        @@ [h EXCEPT ![current].size = total_size,
                                     ![current].next = new_block]
                   ELSE h
         IN  [h |-> [h1 EXCEPT ![current].is_free = FALSE],
              ptr |-> current + HEADER_SIZE]
    ELSE malloc_scan(h, h[current].next, total_size)

malloc(h, initialized, size) ==
    LET h0 == IF initialized THEN h ELSE heap_init(h)
        aligned == ALIGN(HEADER_SIZE + size)
        total_size == IF aligned < MIN_BLOCK_SIZE THEN MIN_BLOCK_SIZE ELSE aligned
    IN  IF size = 0 THEN [h |-> h0, ptr |-> NULL]
        ELSE malloc_scan(h0, 0, total_size)

\* "Coalesce with next block if it's free"
free_coalesce_next_skipped(h, block) == h

free_coalesce_next(h, block) ==
    LET n == h[block].next
    IN  IF n # NULL /\ h[n].is_free
        THEN [h EXCEPT ![block].size = @ + h[n].size, ![block].next = h[n].next]
        ELSE h

\* "Coalesce with previous block if it's free": the walk from the head.
RECURSIVE free_walk(_, _, _)
free_walk(h, current, block) ==
    IF current = NULL THEN h
    ELSE IF h[current].next = NULL THEN h
    ELSE IF h[current].is_free /\ h[current].next = block
    THEN [h EXCEPT ![current].size = @ + h[block].size,
                   ![current].next = h[block].next]
    ELSE LET n == h[current].next
             h1 == IF h[n].is_free /\ h[n].next # NULL /\ h[n].next = block
                        /\ h[block].is_free
                   THEN [h EXCEPT ![n].size = @ + h[block].size,
                                  ![n].next = h[block].next]
                   ELSE h
         IN  free_walk(h1, h1[current].next, block)

\* What free reads as the header in front of a pointer: a header where one
\* has been written, payload bytes anywhere else.
PayloadBytes == [size |-> 0, next |-> NULL, is_free |-> FALSE,
                 magic |-> "payload"]
header_at(h, block) == IF block \in DOMAIN h THEN h[block] ELSE PayloadBytes

\* free without the "Already free?" test.
free_without_double_free_test(h, head, ptr) ==
    LET block == ptr - HEADER_SIZE
    IN  IF ptr = NULL THEN h
        ELSE IF header_at(h, block).magic # BLOCK_MAGIC THEN h
        ELSE free_walk(free_coalesce_next([h EXCEPT ![block].is_free = TRUE],
                                          block),
                       head, block)

free(h, head, ptr) ==
    LET block == ptr - HEADER_SIZE
    IN  IF ptr = NULL THEN h
        ELSE IF header_at(h, block).magic # BLOCK_MAGIC THEN h
        ELSE IF h[block].is_free THEN h
        ELSE free_walk(free_coalesce_next([h EXCEPT ![block].is_free = TRUE],
                                          block),
                       head, block)

\* The physical block list: the addresses reached from the head through next.
RECURSIVE block_list(_, _)
block_list(h, current) ==
    IF current = NULL THEN <<>> ELSE <<current>> \o block_list(h, h[current].next)

MallocSizes == {0, 1, 16, 40}
\* Pointers into the middle of a payload: no header was ever written in
\* front of them.
WildPtrs == {q + 4 : q \in heap_ptrs}

HeapMalloc(size) ==
    LET r == malloc(heap, heap_initialized, size)
    IN  /\ heap_calls < MaxHeapCalls
        /\ heap_calls' = heap_calls + 1
        /\ heap' = r.h
        /\ heap_head' = 0
        /\ heap_initialized' = TRUE
        /\ heap_ptrs' = IF r.ptr = NULL THEN heap_ptrs ELSE heap_ptrs \cup {r.ptr}
        /\ heap_last' = [op |-> "malloc", arg |-> size, ret |-> r.ptr,
                         blocks |-> Len(block_list(heap, heap_head))]

HeapFree(ptr) ==
    /\ heap_calls < MaxHeapCalls
    /\ heap_calls' = heap_calls + 1
    /\ heap' = free(heap, heap_head, ptr)
    /\ heap_last' = [op |-> "free", arg |-> ptr, ret |-> 0,
                     blocks |-> Len(block_list(heap, heap_head))]
    /\ UNCHANGED <<heap_head, heap_initialized, heap_ptrs>>

HeapInit ==
    /\ heap = <<>>
    /\ heap_head = NULL
    /\ heap_initialized = FALSE
    /\ heap_ptrs = {}
    /\ heap_calls = 0
    /\ heap_last = [op |-> "boot", arg |-> 0, ret |-> 0, blocks |-> 0]

(***************************************************************************)
(* Input event ring (src/c/kernel/event.c)                                 *)
(***************************************************************************)

\* The ring holds 2^QueueBits slots (256 in the source).
QueueBits == 2
\* Number of event_push calls explored.
MaxPushes == 6

RECURSIVE Pow2(_)
Pow2(n) == IF n = 0 THEN 1 ELSE 2 * Pow2(n - 1)
EVENT_QUEUE_SIZE == Pow2(QueueBits)
\* x & EVENT_QUEUE_MASK, the size being a power of two
Masked(x) == x % EVENT_QUEUE_SIZE

EventFields == <<"type", "subtype", "code", "x", "y">>
\* The n-th event handed to event_push: every field carries n.
Event(n) == [f \in {EventFields[i] : i \in 1..Len(EventFields)} |-> n]

VARIABLES
    event_queue,    \* slot -> input_event_t
    queue_head,     \* write index (producer)
    queue_tail,     \* read index (consumer)
    push_pc,        \* producer: "idle", "check", "write", "publish"
    push_ev,        \* the event being pushed
    push_i,         \* next field to write
    next_head,      \* producer's local
    pop_pc,         \* consumer: "idle", "read", "advance"
    pop_ev,         \* the caller's event, filled field by field
    pop_i,          \* next field to read
    ring_calls,     \* event_push calls started
    ring_pushed,    \* numbers of the events whose push returned 0
    ring_popped,    \* events delivered by pops that returned 0
    ring_ret        \* [push, pop]: last return values

ringVars == <<event_queue, queue_head, queue_tail, push_pc, push_ev, push_i,
              next_head, pop_pc, pop_ev, pop_i, ring_calls, ring_pushed,
              ring_popped, ring_ret>>

\* event_push, one memory access per step.
PushBegin ==
    /\ push_pc = "idle" /\ ring_calls < MaxPushes
    /\ ring_calls' = ring_calls + 1
    /\ push_ev' = Event(ring_calls + 1)
    /\ next_head' = Masked(queue_head + 1)
    /\ push_pc' = "check"
    /\ UNCHANGED <<event_queue, queue_head, queue_tail, push_i, pop_pc, pop_ev,
                   pop_i, ring_pushed, ring_popped, ring_ret>>

\* The producer publishing the head before it has written the slot.
PushCheckPublishing ==
    /\ push_pc = "check"
    /\ IF next_head = queue_tail
       THEN push_pc' = "idle" /\ ring_ret' = [ring_ret EXCEPT !.push = -1]
            /\ UNCHANGED <<push_i, queue_head>>
       ELSE push_pc' = "write" /\ push_i' = 1 /\ queue_head' = next_head
            /\ UNCHANGED ring_ret
    /\ UNCHANGED <<event_queue, queue_tail, push_ev, next_head, pop_pc,
                   pop_ev, pop_i, ring_calls, ring_pushed, ring_popped>>

\* The producer treating the ring as full one event early.
PushCheckEarly ==
    /\ push_pc = "check"
    /\ IF Masked(next_head + 1) = queue_tail
       THEN push_pc' = "idle" /\ ring_ret' = [ring_ret EXCEPT !.push = -1]
            /\ UNCHANGED push_i
       ELSE push_pc' = "write" /\ push_i' = 1 /\ UNCHANGED ring_ret
    /\ UNCHANGED <<event_queue, queue_head, queue_tail, push_ev, next_head,
                   pop_pc, pop_ev, pop_i, ring_calls, ring_pushed, ring_popped>>

PushCheck ==
    /\ push_pc = "check"
    /\ IF next_head = queue_tail
       THEN push_pc' = "idle" /\ ring_ret' = [ring_ret EXCEPT !.push = -1]
            /\ UNCHANGED push_i
       ELSE push_pc' = "write" /\ push_i' = 1 /\ UNCHANGED ring_ret
    /\ UNCHANGED <<event_queue, queue_head, queue_tail, push_ev, next_head,
                   pop_pc, pop_ev, pop_i, ring_calls, ring_pushed, ring_popped>>

PushWrite ==
    /\ push_pc = "write"
    /\ event_queue' = [event_queue EXCEPT
            ![queue_head][EventFields[push_i]] = push_ev[EventFields[push_i]]]
    /\ IF push_i = Len(EventFields)
       THEN push_pc' = "publish" /\ UNCHANGED push_i
       ELSE push_i' = push_i + 1 /\ UNCHANGED push_pc
    /\ UNCHANGED <<queue_head, queue_tail, push_ev, next_head, pop_pc, pop_ev,
                   pop_i, ring_calls, ring_pushed, ring_popped, ring_ret>>

PushPublish ==
    /\ push_pc = "publish"
    /\ queue_head' = next_head
    /\ push_pc' = "idle"
    /\ ring_ret' = [ring_ret EXCEPT !.push = 0]
    /\ ring_pushed' = Append(ring_pushed, push_ev.type)
    /\ UNCHANGED <<event_queue, queue_tail, push_ev, push_i, next_head, pop_pc,
                   pop_ev, pop_i, ring_calls, ring_popped>>

\* event_pop, one memory access per step.
PopCheck ==
    /\ pop_pc = "idle"
    /\ IF queue_tail = queue_head
       THEN ring_ret' = [ring_ret EXCEPT !.pop = -1] /\ UNCHANGED <<pop_pc, pop_i>>
       ELSE pop_pc' = "read" /\ pop_i' = 1 /\ UNCHANGED ring_ret
    /\ UNCHANGED <<event_queue, queue_head, queue_tail, push_pc, push_ev,
                   push_i, next_head, pop_ev, ring_calls, ring_pushed,
                   ring_popped>>

\* The consumer reading the newest slot instead of the oldest.
PopReadNewest ==
    /\ pop_pc = "read"
    /\ pop_ev' = [pop_ev EXCEPT
            ![EventFields[pop_i]] =
                event_queue[Masked(queue_head - 1 + EVENT_QUEUE_SIZE)][EventFields[pop_i]]]
    /\ IF pop_i = Len(EventFields)
       THEN pop_pc' = "advance" /\ UNCHANGED pop_i
       ELSE pop_i' = pop_i + 1 /\ UNCHANGED pop_pc
    /\ UNCHANGED <<event_queue, queue_head, queue_tail, push_pc, push_ev,
                   push_i, next_head, ring_calls, ring_pushed, ring_popped,
                   ring_ret>>

PopRead ==
    /\ pop_pc = "read"
    /\ pop_ev' = [pop_ev EXCEPT
            ![EventFields[pop_i]] = event_queue[queue_tail][EventFields[pop_i]]]
    /\ IF pop_i = Len(EventFields)
       THEN pop_pc' = "advance" /\ UNCHANGED pop_i
       ELSE pop_i' = pop_i + 1 /\ UNCHANGED pop_pc
    /\ UNCHANGED <<event_queue, queue_head, queue_tail, push_pc, push_ev,
                   push_i, next_head, ring_calls, ring_pushed, ring_popped,
                   ring_ret>>

PopAdvance ==
    /\ pop_pc = "advance"
    /\ queue_tail' = Masked(queue_tail + 1)
    /\ pop_pc' = "idle"
    /\ ring_ret' = [ring_ret EXCEPT !.pop = 0]
    /\ ring_popped' = Append(ring_popped, pop_ev)
    /\ UNCHANGED <<event_queue, queue_head, push_pc, push_ev, push_i,
                   next_head, pop_ev, pop_i, ring_calls, ring_pushed>>

RingInit ==
    /\ event_queue = [i \in 0..(EVENT_QUEUE_SIZE - 1) |-> Event(0)]
    /\ queue_head = 0 /\ queue_tail = 0
    /\ push_pc = "idle" /\ push_ev = Event(0) /\ push_i = 1 /\ next_head = 0
    /\ pop_pc = "idle" /\ pop_ev = Event(0) /\ pop_i = 1
    /\ ring_calls = 0 /\ ring_pushed = <<>> /\ ring_popped = <<>>
    /\ ring_ret = [push |-> 0, pop |-> 0]

(***************************************************************************)
(* Network stack (src/kernel/net/net.c, src/kernel/tcp.c)                  *)
(*                                                                         *)
(* The virtio NIC is present and virtio_net_send succeeds.  MAC addresses  *)
(* are left out: of the ARP cache only hit or miss is observable here.     *)
(* Deadlines are kept as the number of ticks left (timeout_tick minus the  *)
(* tick counter), saturating at -1, which is all the comparisons           *)
(* "ticks > timeout_tick" of the source depend on.                         *)
(***************************************************************************)

\* Scaled sizes and periods.  The source has an 8-entry ARP cache, 4 TCP
\* connections, 32-bit sequence numbers, a 4096-byte receive buffer, 1400-byte
\* segments, and
\* re-sends the DHCP discover every 30000 ticks; its SYN timeout is 500
\* ticks, its FIN timeouts 5000 and 2000 ticks, its retry cap 5.
ArpCacheSize == 1
DhcpRetryTicks == 3
MaxConns == 1
SeqBits == 2
TcpRxBufSize == 4
TcpMss == 4
SynTicks == 1
FinTicks == 2
TimeWaitTicks == 1
MaxSynRetries == 2
\* Ephemeral ports: the source counts from 49152 and wraps after 65000.
LastLocalPort == 49153
\* DNS: timeout 30000 ticks, first retry after 1000, later ones after 500;
\* 16-bit query ids.
DnsTimeoutTicks == 5
DnsFirstRetryTicks == 2
DnsRetryTicks == 1
DnsIdBits == 1

ARP_REQUEST == 1
ARP_REPLY == 2
DHCP_IDLE == 0
DHCP_DISCOVERING == 1
DHCP_REQUESTING == 2
DHCP_CONFIGURED == 3
DHCP_DISCOVER == 1
DHCP_OFFER == 2
DHCP_REQUEST == 3
DHCP_ACK == 5
dhcp_xid == 305419896
DNS_STATE_IDLE == 0
DNS_STATE_PENDING == 1
DNS_STATE_DONE == 2
DNS_STATE_ERROR == 3
FIRST_LOCAL_PORT == 49152
TCP_FIN == 1
TCP_SYN == 2
TCP_RST == 4
TCP_PSH == 8
TCP_ACK == 16
TCP_CLOSED == 0
TCP_SYN_SENT == 1
TCP_ESTABLISHED == 2
TCP_FIN_WAIT_1 == 3
TCP_FIN_WAIT_2 == 4
TCP_CLOSE_WAIT == 5
TCP_LAST_ACK == 6
TCP_TIME_WAIT == 7

SeqMod == Pow2(SeqBits)
IP(n) == <<10, 0, 2, n>>
ZeroIp == <<0, 0, 0, 0>>
broadcast_ip == <<255, 255, 255, 255>>
NoPacket == [kind |-> "none"]

VARIABLES
    config,                 \* net_config_t config
    arp_cache,              \* arp_cache[]: valid, ip
    tick_counter,           \* modulo DhcpRetryTicks, its only use besides deadlines
    connections,            \* tcp_conn_t connections[]
    next_local_port,
    dns_query,              \* the caller's dns_query_t (http_request_t.dns_query)
    active_dns_query,       \* TRUE when the pointer refers to dns_query
    dns_other,              \* the dns_query_t of the caller that active_dns_query
                            \* does not point to
    dns_query_id_counter,
    net_tx,                 \* frames handed to virtio_net_send by the last call
    dhcp_fed                \* DHCP replies received, with the state they met

ZeroConn ==
    [state |-> TCP_CLOSED, remote_ip |-> ZeroIp, remote_port |-> 0, local_port |-> 0,
     seq_num |-> 0, ack_num |-> 0, rx_buffer |-> <<>>, rx_ready |-> 0,
     timeout |-> 0, retries |-> 0]

ZeroDnsQuery ==
    [state |-> DNS_STATE_IDLE, result_ip |-> ZeroIp, query_id |-> 0,
     timeout |-> 0, retry |-> 0]

\* The stack's state as one value, so that a handler is a function on it.
NetState ==
    [config |-> config, arp_cache |-> arp_cache, tick_counter |-> tick_counter,
     connections |-> connections, next_local_port |-> next_local_port,
     dns_query |-> dns_query, active_dns_query |-> active_dns_query,
     dns_query_id_counter |-> dns_query_id_counter, dns_other |-> dns_other,
     tx |-> <<>>]

virtio_net_send(N, frame) == [N EXCEPT !.tx = Append(@, frame)]

\* A deadline one tick later.
TickDown(t) == IF t < 0 THEN -1 ELSE t - 1

net_arp_lookup(N, ip) ==
    \E i \in 1..ArpCacheSize : N.arp_cache[i].valid = 1 /\ N.arp_cache[i].ip = ip

arp_add(N, ip) ==
    LET c == N.arp_cache
        known == {i \in 1..ArpCacheSize : c[i].valid = 1 /\ c[i].ip = ip}
        empty == {i \in 1..ArpCacheSize : c[i].valid = 0}
        first == CHOOSE i \in empty : \A j \in empty : i <= j
    IN  IF known # {} THEN N
        ELSE IF empty # {}
             THEN [N EXCEPT !.arp_cache[first] = [valid |-> 1, ip |-> ip]]
             ELSE [N EXCEPT !.arp_cache[1].ip = ip]

net_send_arp_request(N, target_ip) ==
    virtio_net_send(N, [kind |-> "arp", opcode |-> ARP_REQUEST, target_ip |-> target_ip])

handle_arp(N, arp) ==
    LET N1 == arp_add(N, arp.sender_ip)
    IN  IF arp.opcode = ARP_REQUEST /\ N1.config.configured = 1
                /\ arp.target_ip = N1.config.ip
        THEN virtio_net_send(N1, [kind |-> "arp", opcode |-> ARP_REPLY,
                                  target_ip |-> arp.sender_ip])
        ELSE N1

(***************************************************************************)
(* TCP (src/kernel/tcp.c)                                                  *)
(***************************************************************************)
find_free_conn(N) ==
    LET unused == {i \in 0..(MaxConns - 1) : N.connections[i].state = TCP_CLOSED}
    IN  IF unused = {} THEN -1 ELSE CHOOSE i \in unused : \A j \in unused : i <= j

find_conn(N, ip, local_port, remote_port) ==
    LET hit == {i \in 0..(MaxConns - 1) :
                    /\ N.connections[i].state # TCP_CLOSED
                    /\ N.connections[i].local_port = local_port
                    /\ N.connections[i].remote_port = remote_port
                    /\ N.connections[i].remote_ip = ip}
    IN  IF hit = {} THEN -1 ELSE CHOOSE i \in hit : \A j \in hit : i <= j

\* Every segment is routed through the gateway; without its MAC address an
\* ARP request goes out instead and seq_num is left alone.
send_tcp_packet(N, idx, flags, data) ==
    LET conn == N.connections[idx]
        advance == (IF TCP_SYN \in flags THEN 1 ELSE 0)
                   + (IF TCP_FIN \in flags THEN 1 ELSE 0) + Len(data)
    IN  IF N.config.configured = 0 THEN N
        ELSE IF ~net_arp_lookup(N, N.config.gateway)
        THEN net_send_arp_request(N, N.config.gateway)
        ELSE [virtio_net_send(N,
                    [kind |-> "tcp", src_ip |-> N.config.ip, dest_ip |-> conn.remote_ip,
                     src_port |-> conn.local_port, dest_port |-> conn.remote_port,
                     seq |-> conn.seq_num, ack |-> conn.ack_num,
                     flags |-> flags, data |-> data])
                EXCEPT !.connections[idx].seq_num = (@ + advance) % SeqMod]

\* iss is the value get_initial_seq returns.
tcp_connect(N, ip, port, iss) ==
    LET idx == find_free_conn(N)
        conn == [ZeroConn EXCEPT !.remote_ip = ip, !.remote_port = port,
                                 !.local_port = N.next_local_port,
                                 !.seq_num = iss, !.state = TCP_SYN_SENT,
                                 !.timeout = SynTicks]
        N1 == [N EXCEPT !.connections[idx] = conn,
                        !.next_local_port =
                            IF @ + 1 > LastLocalPort THEN FIRST_LOCAL_PORT ELSE @ + 1]
    IN  IF N.config.configured = 0 \/ idx < 0
        THEN [net |-> N, ret |-> -1]
        ELSE [net |-> send_tcp_packet(N1, idx, {TCP_SYN}, <<>>), ret |-> idx]

RECURSIVE tcp_send_loop(_, _, _)
tcp_send_loop(N, idx, data) ==
    IF data = <<>> THEN N
    ELSE LET chunk == Min(Len(data), TcpMss)
         IN  tcp_send_loop(
                send_tcp_packet(N, idx, {TCP_ACK, TCP_PSH}, SubSeq(data, 1, chunk)),
                idx, SubSeq(data, chunk + 1, Len(data)))

tcp_send(N, idx, data) ==
    IF idx < 0 \/ idx >= MaxConns THEN [net |-> N, ret |-> -1]
    ELSE IF N.connections[idx].state # TCP_ESTABLISHED THEN [net |-> N, ret |-> -1]
    ELSE [net |-> tcp_send_loop(N, idx, data), ret |-> Len(data)]

tcp_recv(N, idx, max_len) ==
    IF idx < 0 \/ idx >= MaxConns THEN [net |-> N, ret |-> -1, buffer |-> <<>>]
    ELSE LET rx == N.connections[idx].rx_buffer
             to_copy == Min(Len(rx), max_len)
         IN  IF rx = <<>> THEN [net |-> N, ret |-> 0, buffer |-> <<>>]
             ELSE [net |-> [N EXCEPT
                        !.connections[idx].rx_buffer = SubSeq(rx, to_copy + 1, Len(rx)),
                        !.connections[idx].rx_ready =
                            IF Len(rx) - to_copy > 0 THEN 1 ELSE 0],
                   ret |-> to_copy, buffer |-> SubSeq(rx, 1, to_copy)]

tcp_data_available(N, idx) ==
    IF idx < 0 \/ idx >= MaxConns THEN 0 ELSE N.connections[idx].rx_ready

tcp_get_state(N, idx) ==
    IF idx < 0 \/ idx >= MaxConns THEN TCP_CLOSED ELSE N.connections[idx].state

tcp_close(N, idx) ==
    IF idx < 0 \/ idx >= MaxConns THEN N
    ELSE IF N.connections[idx].state = TCP_ESTABLISHED
    THEN [send_tcp_packet(N, idx, {TCP_FIN, TCP_ACK}, <<>>)
            EXCEPT !.connections[idx].state = TCP_FIN_WAIT_1,
                   !.connections[idx].timeout = FinTicks]
    ELSE [N EXCEPT !.connections[idx].state = TCP_CLOSED]

RECURSIVE tcp_poll_loop(_, _)
tcp_poll_loop(N, i) ==
    IF i >= MaxConns THEN N
    ELSE LET conn == N.connections[i]
             retried == [N EXCEPT !.connections[i].retries = @ + 1]
             rewound == [retried EXCEPT
                            !.connections[i].seq_num = (@ + SeqMod - 1) % SeqMod]
             N1 == IF conn.state = TCP_CLOSED \/ conn.timeout >= 0 THEN N
                   ELSE IF conn.state = TCP_SYN_SENT
                   THEN IF conn.retries + 1 > MaxSynRetries
                        THEN [retried EXCEPT !.connections[i].state = TCP_CLOSED]
                        ELSE [send_tcp_packet(rewound, i, {TCP_SYN}, <<>>)
                                EXCEPT !.connections[i].timeout = SynTicks]
                   ELSE IF conn.state \in {TCP_FIN_WAIT_1, TCP_FIN_WAIT_2, TCP_TIME_WAIT}
                   THEN [N EXCEPT !.connections[i].state = TCP_CLOSED]
                   ELSE N
         IN  tcp_poll_loop(N1, i + 1)

\* tcp_ticks++ brings the deadline of every open connection one tick closer.
tcp_poll(N) ==
    tcp_poll_loop(
        [N EXCEPT !.connections =
            [i \in 0..(MaxConns - 1) |->
                IF @[i].state = TCP_CLOSED THEN @[i]
                ELSE [@[i] EXCEPT !.timeout = TickDown(@)]]], 0)

tcp_handle_packet(N, ip_src, tcp) ==
    LET idx == find_conn(N, ip_src, tcp.dest_port, tcp.src_port)
        conn == N.connections[idx]
        data_len == Len(tcp.data)
        next_seq == (tcp.seq + 1) % SeqMod
        to_copy == Min(data_len, TcpRxBufSize - Len(conn.rx_buffer))
        stored == IF to_copy > 0
                  THEN [N EXCEPT
                          !.connections[idx].rx_buffer = @ \o SubSeq(tcp.data, 1, to_copy),
                          !.connections[idx].rx_ready = 1]
                  ELSE N
        acked == IF data_len > 0
                 THEN send_tcp_packet(
                        [stored EXCEPT !.connections[idx].ack_num =
                                            (tcp.seq + data_len) % SeqMod],
                        idx, {TCP_ACK}, <<>>)
                 ELSE N
        ack_next == [N EXCEPT !.connections[idx].ack_num = next_seq]
        time_wait == [send_tcp_packet(ack_next, idx, {TCP_ACK}, <<>>)
                        EXCEPT !.connections[idx].state = TCP_TIME_WAIT,
                               !.connections[idx].timeout = TimeWaitTicks]
    IN  IF idx < 0 THEN N
        ELSE IF TCP_RST \in tcp.flags
        THEN [N EXCEPT !.connections[idx].state = TCP_CLOSED]
        ELSE CASE conn.state = TCP_SYN_SENT ->
                    IF {TCP_SYN, TCP_ACK} \subseteq tcp.flags
                    THEN IF tcp.ack = conn.seq_num
                         THEN send_tcp_packet(
                                [ack_next EXCEPT !.connections[idx].state = TCP_ESTABLISHED],
                                idx, {TCP_ACK}, <<>>)
                         ELSE ack_next
                    ELSE N
               [] conn.state = TCP_ESTABLISHED ->
                    IF TCP_FIN \in tcp.flags
                    THEN [send_tcp_packet(
                            send_tcp_packet(
                                [acked EXCEPT !.connections[idx].ack_num = next_seq],
                                idx, {TCP_ACK}, <<>>),
                            idx, {TCP_FIN, TCP_ACK}, <<>>)
                          EXCEPT !.connections[idx].state = TCP_LAST_ACK]
                    ELSE acked
               [] conn.state = TCP_FIN_WAIT_1 ->
                    IF TCP_FIN \in tcp.flags THEN time_wait
                    ELSE IF TCP_ACK \in tcp.flags
                    THEN [N EXCEPT !.connections[idx].state = TCP_FIN_WAIT_2]
                    ELSE N
               [] conn.state = TCP_FIN_WAIT_2 ->
                    IF TCP_FIN \in tcp.flags THEN time_wait ELSE N
               [] conn.state = TCP_LAST_ACK ->
                    IF TCP_ACK \in tcp.flags
                    THEN [N EXCEPT !.connections[idx].state = TCP_CLOSED]
                    ELSE N
               [] OTHER -> N

(***************************************************************************)
(* UDP, DNS, DHCP and the receive path (src/kernel/net/net.c)              *)
(***************************************************************************)
net_send_udp(N, dest_ip, src_port, dest_port, data) ==
    IF N.config.configured = 0 THEN N
    ELSE IF ~net_arp_lookup(N, N.config.gateway)
    THEN net_send_arp_request(N, N.config.gateway)
    ELSE virtio_net_send(N, [kind |-> "udp", dest_ip |-> dest_ip, src_port |-> src_port,
                             dest_port |-> dest_port, payload |-> data])

\* Builds the query for query_id and sends it to the DHCP-supplied server,
\* or to 10.0.2.3 when there is none.
dns_retry(N) ==
    net_send_udp(N, IF N.config.dns[1] # 0 THEN N.config.dns ELSE IP(3),
                 12345, 53, [id |-> N.dns_query.query_id])

dns_resolve_start(N) ==
    [dns_retry([N EXCEPT
        !.dns_query = [state |-> DNS_STATE_PENDING, result_ip |-> ZeroIp,
                       query_id |-> N.dns_query_id_counter,
                       timeout |-> DnsTimeoutTicks, retry |-> DnsFirstRetryTicks],
        !.dns_query_id_counter = (@ + 1) % Pow2(DnsIdBits)])
     EXCEPT !.active_dns_query = TRUE]

\* Only the first answer record is looked at.  A response cut short before
\* it leaves the query pending; rdata is the rest of the datagram.
handle_dns_response(N, dns) ==
    LET q == N.dns_query
        failed == [N EXCEPT !.dns_query.state = DNS_STATE_ERROR]
    IN  IF ~N.active_dns_query \/ q.state # DNS_STATE_PENDING THEN N
        ELSE IF dns.id # q.query_id THEN N
        ELSE IF dns.qr = 0 THEN N
        ELSE IF dns.rcode # 0 THEN failed
        ELSE IF dns.ancount = 0 THEN failed
        ELSE IF dns.answers = <<>> THEN N
        ELSE LET a == dns.answers[1]
             IN  IF a.atype = 1 /\ a.rdlen = 4 /\ Len(a.rdata) >= 4
                 THEN [N EXCEPT !.dns_query.result_ip = SubSeq(a.rdata, 1, 4),
                                !.dns_query.state = DNS_STATE_DONE]
                 ELSE failed

dns_resolve_poll(N) ==
    LET q == N.dns_query
        N1 == IF q.state # DNS_STATE_PENDING THEN N
              ELSE IF q.timeout < 0 THEN [N EXCEPT !.dns_query.state = DNS_STATE_ERROR]
              ELSE IF q.retry < 0
              THEN [dns_retry(N) EXCEPT !.dns_query.retry = DnsRetryTicks]
              ELSE N
    IN  [net |-> N1, ret |-> N1.dns_query.state]

\* Two callers have a dns_query_t each (the boot-time request of kernel_main
\* and the terminal's): dns_query is the one active_dns_query points to,
\* dns_other the other one.  OtherCaller turns the state to the other caller.
OtherCaller(N) == [N EXCEPT !.dns_query = N.dns_other, !.dns_other = N.dns_query]

\* dns_resolve_start on the query object that is not the active one: it
\* becomes the active one.
dns_resolve_start_other(N) == dns_resolve_start(OtherCaller(N))

\* dns_resolve_poll on the query object that is not the active one.
dns_resolve_poll_other(N) ==
    LET r == dns_resolve_poll(OtherCaller(N))
    IN  [net |-> OtherCaller(r.net), ret |-> r.ret]

send_dhcp_discover(N) ==
    [virtio_net_send(N, [kind |-> "dhcp", msg_type |-> DHCP_DISCOVER, xid |-> dhcp_xid])
        EXCEPT !.config.dhcp_state = DHCP_DISCOVERING]

send_dhcp_request(N, server_ip) ==
    virtio_net_send(N, [kind |-> "dhcp", msg_type |-> DHCP_REQUEST, xid |-> dhcp_xid,
                        requested_ip |-> N.config.ip, server_ip |-> server_ip])

\* handle_udp with the Ack keeping the offered address.
handle_udp_ack_keeps_offer(N, udp) ==
    LET dhcp == udp.payload
        Opt(old, new) == IF new = <<>> THEN old ELSE new
        N1 == [N EXCEPT !.config.subnet = Opt(@, dhcp.subnet),
                        !.config.gateway = Opt(@, dhcp.router),
                        !.config.dns = Opt(@, dhcp.dns)]
    IN  IF udp.src_port = 53 THEN handle_dns_response(N, udp.payload)
        ELSE IF ~(udp.dest_port = 68 /\ udp.src_port = 67) THEN N
        ELSE IF dhcp.xid # dhcp_xid THEN N
        ELSE IF dhcp.msg_type = DHCP_OFFER /\ N.config.dhcp_state = DHCP_DISCOVERING
        THEN send_dhcp_request(
                [N1 EXCEPT !.config.ip = dhcp.yiaddr,
                           !.config.dhcp_state = DHCP_REQUESTING],
                Opt(ZeroIp, dhcp.server_id))
        ELSE IF dhcp.msg_type = DHCP_ACK /\ N.config.dhcp_state = DHCP_REQUESTING
        THEN [N1 EXCEPT !.config.configured = 1,
                        !.config.dhcp_state = DHCP_CONFIGURED]
        ELSE N1

\* An option that is absent from the reply is <<>>.  Options 1, 3 and 6 are
\* stored while the options are parsed, before the message type is looked at.
handle_udp(N, udp) ==
    LET dhcp == udp.payload
        Opt(old, new) == IF new = <<>> THEN old ELSE new
        N1 == [N EXCEPT !.config.subnet = Opt(@, dhcp.subnet),
                        !.config.gateway = Opt(@, dhcp.router),
                        !.config.dns = Opt(@, dhcp.dns)]
    IN  IF udp.src_port = 53 THEN handle_dns_response(N, udp.payload)
        ELSE IF ~(udp.dest_port = 68 /\ udp.src_port = 67) THEN N
        ELSE IF dhcp.xid # dhcp_xid THEN N
        ELSE IF dhcp.msg_type = DHCP_OFFER /\ N.config.dhcp_state = DHCP_DISCOVERING
        THEN send_dhcp_request(
                [N1 EXCEPT !.config.ip = dhcp.yiaddr,
                           !.config.dhcp_state = DHCP_REQUESTING],
                Opt(ZeroIp, dhcp.server_id))
        ELSE IF dhcp.msg_type = DHCP_ACK /\ N.config.dhcp_state = DHCP_REQUESTING
        THEN [N1 EXCEPT !.config.ip = dhcp.yiaddr,
                        !.config.configured = 1,
                        !.config.dhcp_state = DHCP_CONFIGURED]
        ELSE N1

handle_ip(N, ip) ==
    IF ip.dest_ip # N.config.ip /\ ip.dest_ip # broadcast_ip THEN N
    ELSE IF ip.kind = "tcp" THEN tcp_handle_packet(N, ip.src_ip, ip)
    ELSE IF ip.kind = "udp" THEN handle_udp(N, ip)
    ELSE N

process_packet(N, pkt) ==
    IF pkt.kind = "arp" THEN handle_arp(N, pkt)
    ELSE IF pkt.kind \in {"tcp", "udp"} THEN handle_ip(N, pkt)
    ELSE N

\* One pass of the main loop's net_poll, pkt being what virtio_net_recv
\* returned (NoPacket when the queue was empty).  tick_counter++ brings the
\* deadlines of a pending DNS query one tick closer; its phase in the DHCP
\* retry period is read only while the interface is unconfigured, and is
\* kept only until then.
net_poll(N, pkt) ==
    LET pending == N.dns_query.state = DNS_STATE_PENDING
        other_pending == N.dns_other.state = DNS_STATE_PENDING
        N0 == [N EXCEPT !.tick_counter = IF N.config.configured = 0
                                          THEN (@ + 1) % DhcpRetryTicks ELSE @,
                        !.dns_query.timeout = IF pending THEN TickDown(@) ELSE @,
                        !.dns_query.retry = IF pending THEN TickDown(@) ELSE @,
                        !.dns_other.timeout = IF other_pending THEN TickDown(@) ELSE @,
                        !.dns_other.retry = IF other_pending THEN TickDown(@) ELSE @]
        N1 == tcp_poll(IF pkt.kind # "none" THEN process_packet(N0, pkt) ELSE N0)
    IN  IF /\ N1.config.configured = 0
           /\ N1.config.dhcp_state # DHCP_CONFIGURED
           /\ (N1.config.dhcp_state = DHCP_IDLE \/ N1.tick_counter = 0)
        THEN send_dhcp_discover(N1)
        ELSE N1

(***************************************************************************)
(* HTTP client (src/kernel/http.c)                                         *)
(*                                                                         *)
(* A byte stream is a sequence of numbers: a number below 256 is one byte, *)
(* StatusLine(c), ContentLengthLine(n) and HEADER_END stand for a whole    *)
(* header line and for the blank line that ends the headers, each counted  *)
(* as one byte of the scaled buffers.                                      *)
(***************************************************************************)
\* Scaled sizes: the source reads at most 1024 bytes per poll into a
\* 4096-byte body.
HttpRecvMax == 3
HttpMaxBody == 4

HTTP_STATE_IDLE == 0
HTTP_STATE_DNS == 1
HTTP_STATE_CONNECTING == 2
HTTP_STATE_HEADERS == 4
HTTP_STATE_BODY == 5
HTTP_STATE_DONE == 6
HTTP_STATE_ERROR == 7

StatusLine(code) == 1000 + code
ContentLengthLine(n) == 2000 + n
HEADER_END == 3000
\* What build_request produces, as one unit of the stream.
HttpRequestBytes == <<4000>>

VARIABLES
    http_req,               \* http_request_t (its dns_query is dns_query)
    http_active             \* the caller's flag: a request is in progress

\* A handle in zeroed static storage.
ZeroRequest ==
    [state |-> HTTP_STATE_IDLE, tcp_conn |-> 0, port |-> 0, resolved_ip |-> ZeroIp,
     status_code |-> 0, content_length |-> 0, body |-> <<>>, header_complete |-> 0]

\* The first HEADER_END ends the headers; the status code is read from the
\* first line, and the last Content-Length line gives content_length.
parse_response(req, data) ==
    LET ends == {i \in 1..Len(data) : data[i] = HEADER_END}
        header_end == CHOOSE i \in ends : \A j \in ends : i <= j
        lengths == {i \in 1..(header_end - 1) : data[i] \div 1000 = 2}
        last == CHOOSE i \in lengths : \A j \in lengths : j <= i
    IN  IF ends = {} THEN [ret |-> 0, req |-> req]
        ELSE [ret |-> 1,
              req |-> [req EXCEPT
                        !.header_complete = 1,
                        !.status_code = IF data[1] \div 1000 = 1 THEN data[1] % 1000 ELSE 0,
                        !.content_length = IF lengths = {} THEN -1 ELSE data[last] % 1000,
                        !.body = SubSeq(data, header_end + 1, Len(data))]]

\* url is what http_parse_url and is_ip_address make of the URL: ok = 0 for
\* a URL without host, host_ip = <<>> for a host name.
http_request_start(N, url, iss) ==
    LET req == [ZeroRequest EXCEPT !.tcp_conn = -1, !.content_length = -1,
                                   !.port = url.port]
        c == tcp_connect(N, url.host_ip, url.port, iss)
    IN  IF url.ok = 0 \/ url.is_https = 1
        THEN [net |-> N, req |-> [req EXCEPT !.state = HTTP_STATE_ERROR], ret |-> -1]
        ELSE IF url.host_ip # <<>>
        THEN IF c.ret < 0
             THEN [net |-> c.net, ret |-> -1,
                   req |-> [req EXCEPT !.resolved_ip = url.host_ip, !.tcp_conn = c.ret,
                                       !.state = HTTP_STATE_ERROR]]
             ELSE [net |-> c.net, ret |-> 0,
                   req |-> [req EXCEPT !.resolved_ip = url.host_ip, !.tcp_conn = c.ret,
                                       !.state = HTTP_STATE_CONNECTING]]
        ELSE [net |-> dns_resolve_start(N), ret |-> 0,
              req |-> [req EXCEPT !.state = HTTP_STATE_DNS]]

http_check_done_on_close_only(N, req, tcp_state) ==
    IF tcp_state \in {TCP_CLOSED, TCP_CLOSE_WAIT}
    THEN [net |-> N, req |-> [req EXCEPT !.state = HTTP_STATE_DONE]]
    ELSE [net |-> N, req |-> req]

\* The "check if done" step that ends a poll in headers or body.
http_check_done(N, req, tcp_state) ==
    IF tcp_state \in {TCP_CLOSED, TCP_CLOSE_WAIT}
    THEN [net |-> N, req |-> [req EXCEPT !.state = HTTP_STATE_DONE]]
    ELSE IF req.content_length >= 0 /\ Len(req.body) >= req.content_length
    THEN [net |-> tcp_close(N, req.tcp_conn),
          req |-> [req EXCEPT !.state = HTTP_STATE_DONE]]
    ELSE [net |-> N, req |-> req]

\* F(x), with x evaluated once.
With(x, F(_)) == CHOOSE v \in {F(y) : y \in {x}} : TRUE

http_request_poll(N, req, iss) ==
    LET d == dns_resolve_poll(N)
        c == tcp_connect(d.net, d.net.dns_query.result_ip, req.port, iss)
        tcp_state == tcp_get_state(N, req.tcp_conn)
        available == tcp_data_available(N, req.tcp_conn) # 0
        r == tcp_recv(N, req.tcp_conn, HttpRecvMax)
        N1 == IF available THEN r.net ELSE N
        len == IF r.ret < 0 THEN 0 ELSE r.ret
        gathered == [req EXCEPT !.body =
                        @ \o SubSeq(r.buffer, 1, Min(len, HttpMaxBody - Len(@)))]
        parsed == With(gathered, LAMBDA g : parse_response(g, g.body))
        req1 == IF ~available THEN req
                ELSE IF req.header_complete = 0
                THEN IF parsed.ret = 1
                     THEN [parsed.req EXCEPT !.state = HTTP_STATE_BODY]
                     ELSE gathered
                ELSE [req EXCEPT !.body =
                        @ \o SubSeq(r.buffer, 1, Min(len, HttpMaxBody - Len(@) - 1))]
    IN  IF req.state \in {HTTP_STATE_DONE, HTTP_STATE_ERROR} THEN [net |-> N, req |-> req]
        ELSE IF req.state = HTTP_STATE_DNS
        THEN IF d.ret = DNS_STATE_DONE
             THEN [net |-> c.net,
                   req |-> [req EXCEPT !.resolved_ip = d.net.dns_query.result_ip,
                                       !.tcp_conn = c.ret,
                                       !.state = IF c.ret < 0 THEN HTTP_STATE_ERROR
                                                 ELSE HTTP_STATE_CONNECTING]]
             ELSE IF d.ret = DNS_STATE_ERROR
             THEN [net |-> d.net, req |-> [req EXCEPT !.state = HTTP_STATE_ERROR]]
             ELSE [net |-> d.net, req |-> req]
        ELSE IF req.state = HTTP_STATE_CONNECTING
        THEN IF tcp_state = TCP_ESTABLISHED
             THEN [net |-> tcp_send(N, req.tcp_conn, HttpRequestBytes).net,
                   req |-> [req EXCEPT !.state = HTTP_STATE_HEADERS]]
             ELSE IF tcp_state = TCP_CLOSED
             THEN [net |-> N, req |-> [req EXCEPT !.state = HTTP_STATE_ERROR]]
             ELSE [net |-> N, req |-> req]
        ELSE IF req.state \in {HTTP_STATE_HEADERS, HTTP_STATE_BODY}
        THEN With(req1, LAMBDA q : http_check_done(N1, q, tcp_state))
        ELSE [net |-> N, req |-> req]

http_request_close(N, req) ==
    [net |-> IF req.tcp_conn >= 0 THEN tcp_close(N, req.tcp_conn) ELSE N,
     req |-> [req EXCEPT !.tcp_conn = IF @ >= 0 THEN -1 ELSE @,
                         !.state = HTTP_STATE_IDLE]]

(***************************************************************************)
(* WebSocket client (src/kernel/websocket.c)                               *)
(***************************************************************************)
\* Scaled sizes: the source reads at most 511 bytes of handshake and 1024
\* bytes of frames per poll, and keeps a 2048-byte message buffer.
WsHandshakeRecvMax == 3
WsRecvMax == 4
WsMaxMessage == 3

WS_STATE_CLOSED == 0
WS_STATE_CONNECTING == 1
WS_STATE_OPEN == 2
WS_STATE_CLOSING == 3
WS_OP_TEXT == 1
WS_OP_BINARY == 2
WS_OP_CLOSE == 8
WS_OP_PING == 9
WS_OP_PONG == 10

\* What build_upgrade_request produces, as one unit of the stream.
WsUpgradeBytes == <<4001>>

VARIABLES
    ws_conn,                \* websocket_t
    ws_stream               \* the frame bytes ws_poll has taken from TCP so far

\* A handle in zeroed static storage.
ZeroWebsocket ==
    [state |-> WS_STATE_CLOSED, tcp_conn |-> 0, handshake_sent |-> 0,
     handshake_complete |-> 0, rx_buffer |-> <<>>, rx_ready |-> 0, rx_opcode |-> 0]

RECURSIVE Xor(_, _)
Xor(a, b) == IF a = 0 /\ b = 0 THEN 0
             ELSE ((a + b) % 2) + 2 * Xor(a \div 2, b \div 2)

\* The offset of the first frame byte, 0 when the response is not a
\* complete "HTTP/1.x 101" response.
check_upgrade_response(data) ==
    LET ends == {i \in 1..Len(data) : data[i] = HEADER_END}
    IN  IF data = <<>> \/ data[1] # StatusLine(101) \/ ends = {} THEN 0
        ELSE CHOOSE i \in ends : \A j \in ends : i <= j

\* mask_key is the four bytes ws_rand returns.
send_frame(N, ws, opcode, data, mask_key) ==
    tcp_send(N, ws.tcp_conn,
             <<128 + (opcode % 16), 128 + Len(data)>> \o mask_key
                \o [i \in 1..Len(data) |-> Xor(data[i], mask_key[((i - 1) % 4) + 1])])

\* Payload lengths stay below 126 here, so the extended length forms are
\* met only as frames that never complete.
parse_frame(N, ws, data, mask_key) ==
    LET len == Len(data)
        opcode == data[1] % 16
        mask == (data[2] \div 128) % 2
        len7 == data[2] % 128
        pos0 == IF len7 = 126 THEN 4 ELSE IF len7 = 127 THEN 10 ELSE 2
        payload_len == IF len7 = 126 THEN data[3] * 256 + data[4]
                       ELSE IF len7 = 127
                       THEN ((data[7] * 256 + data[8]) * 256 + data[9]) * 256 + data[10]
                       ELSE len7
        pos == IF mask = 1 THEN pos0 + 4 ELSE pos0
        key == SubSeq(data, pos0 + 1, pos0 + 4)
        stored == Min(payload_len, WsMaxMessage - 1)
        rx == [i \in 1..stored |->
                    IF mask = 1 THEN Xor(data[pos + i], key[((i - 1) % 4) + 1])
                    ELSE data[pos + i]]
        ws1 == [ws EXCEPT !.rx_opcode = opcode, !.rx_buffer = rx]
        consumed == pos + payload_len
    IN  IF len < 2 \/ len < pos0 \/ pos > len \/ pos + payload_len > len
        THEN [net |-> N, ws |-> ws, ret |-> 0]
        ELSE IF opcode = WS_OP_PING
        THEN [net |-> send_frame(N, ws1, WS_OP_PONG, rx, mask_key).net,
              ws |-> [ws1 EXCEPT !.rx_ready = 0], ret |-> consumed]
        ELSE IF opcode = WS_OP_CLOSE
        THEN [net |-> send_frame(N, ws1, WS_OP_CLOSE, <<>>, mask_key).net,
              ws |-> [ws1 EXCEPT !.state = WS_STATE_CLOSED, !.rx_ready = 0],
              ret |-> consumed]
        ELSE IF opcode = WS_OP_PONG
        THEN [net |-> N, ws |-> [ws1 EXCEPT !.rx_ready = 0], ret |-> consumed]
        ELSE [net |-> N, ws |-> [ws1 EXCEPT !.rx_ready = 1], ret |-> consumed]

\* url is what parse_ws_url and http_resolve_host make of the URL.
ws_connect(N, url, iss) ==
    LET c == tcp_connect(N, url.host_ip, url.port, iss)
    IN  IF url.ok = 0 \/ url.host_ip = <<>>
        THEN [net |-> N, ws |-> ZeroWebsocket, ret |-> -1]
        ELSE IF c.ret < 0
        THEN [net |-> c.net, ws |-> [ZeroWebsocket EXCEPT !.tcp_conn = c.ret], ret |-> -1]
        ELSE [net |-> c.net, ret |-> 0,
              ws |-> [ZeroWebsocket EXCEPT !.tcp_conn = c.ret,
                                           !.state = WS_STATE_CONNECTING]]

\* The result's frames are the bytes handed to parse_frame.
ws_poll(N, ws, mask_key) ==
    LET tcp_state == tcp_get_state(N, ws.tcp_conn)
        upgrade == tcp_state = TCP_ESTABLISHED /\ ws.handshake_sent = 0
        N1 == IF upgrade THEN tcp_send(N, ws.tcp_conn, WsUpgradeBytes).net ELSE N
        ws1 == IF upgrade THEN [ws EXCEPT !.handshake_sent = 1] ELSE ws
        h == tcp_recv(N1, ws.tcp_conn, WsHandshakeRecvMax)
        frame_start == check_upgrade_response(h.buffer)
        opened == [ws1 EXCEPT !.state = WS_STATE_OPEN, !.handshake_complete = 1]
        first == SubSeq(h.buffer, frame_start + 1, Len(h.buffer))
        p1 == parse_frame(h.net, opened, first, mask_key)
        r == tcp_recv(N, ws.tcp_conn, WsRecvMax)
        p2 == parse_frame(r.net, ws, r.buffer, mask_key)
        Out(N2, ws2, frames) == [net |-> N2, ws |-> ws2, frames |-> frames]
    IN  IF ws.state = WS_STATE_CLOSED THEN Out(N, ws, <<>>)
        ELSE IF ws.state = WS_STATE_CONNECTING
        THEN IF tcp_state = TCP_CLOSED
             THEN Out(N1, [ws1 EXCEPT !.state = WS_STATE_CLOSED], <<>>)
             ELSE IF ws1.handshake_sent = 0 \/ tcp_data_available(N1, ws.tcp_conn) = 0
             THEN Out(N1, ws1, <<>>)
             ELSE IF frame_start = 0 THEN Out(h.net, ws1, <<>>)
             ELSE IF first = <<>> THEN Out(h.net, opened, <<>>)
             ELSE Out(p1.net, p1.ws, first)
        ELSE IF ws.state = WS_STATE_OPEN
        THEN IF tcp_state = TCP_CLOSED
             THEN Out(N, [ws EXCEPT !.state = WS_STATE_CLOSED], <<>>)
             ELSE IF tcp_data_available(N, ws.tcp_conn) = 0 \/ r.ret <= 0
             THEN Out(N, ws, <<>>)
             ELSE Out(p2.net, p2.ws, r.buffer)
        ELSE Out(N, ws, <<>>)

\* ws_get_message into a buffer of max_len bytes.
ws_get_message(ws, max_len) ==
    LET to_copy == Min(Len(ws.rx_buffer), max_len - 1)
    IN  IF ws.rx_ready = 0 THEN [ws |-> ws, ret |-> 0, buffer |-> <<>>]
        ELSE [ws |-> [ws EXCEPT !.rx_ready = 0, !.rx_buffer = <<>>],
              ret |-> to_copy, buffer |-> SubSeq(ws.rx_buffer, 1, to_copy)]

ws_close(N, ws, mask_key) ==
    LET N1 == IF ws.state = WS_STATE_OPEN
              THEN send_frame(N, ws, WS_OP_CLOSE, <<>>, mask_key).net
              ELSE N
    IN  [net |-> tcp_close(N1, ws.tcp_conn), ws |-> [ws EXCEPT !.state = WS_STATE_CLOSED]]

(***************************************************************************)
(* The network calls as actions                                            *)
(***************************************************************************)
VARIABLES
    ws_active,              \* the caller's flag: ws_conn is in use
    tcp_iss,                \* per connection, what get_initial_seq returned
    peer_sent,              \* per connection, the bytes its peer has sent so far
    first_syn,              \* per connection in SYN_SENT, the sequence number of the
                            \* first SYN that reached the wire, -1 if none did
    tcp_dropped             \* per connection, whether tcp_send accepted payload that no
                            \* frame has carried since

\* No peer of a connection sends more than this many bytes of data.
MaxPeerBytes == 8

\* The timers of tcp.c at their width: tcp_ticks and timeout_tick are
\* uint32_t in the source, TickBits bits wide here.
TickBits == 3
TickMod == 2 ^ TickBits
\* phase_polls stops counting here.
MaxPhasePolls == 2 * TickMod

VARIABLES
    tcp_ticks,      \* static uint32_t tcp_ticks
    timed_conn,     \* one tcp_conn_t: [state, timeout_tick, retries]
    phase_polls,    \* tcp_poll calls since timed_conn entered its phase:
                    \* opening (SYN_SENT), closing (FIN_WAIT_1, FIN_WAIT_2,
                    \* TIME_WAIT) or neither
    tick_counter_w, \* static uint32_t tick_counter of net.c, TickBits wide
    timed_query,    \* one dns_query_t: [state, timeout_tick, retry_tick]
    query_polls     \* net_poll calls since dns_resolve_start

dnsTimerVars == <<tick_counter_w, timed_query, query_polls>>

timerVars == <<tcp_ticks, timed_conn, phase_polls, dnsTimerVars>>

netVars == <<config, arp_cache, tick_counter, connections, next_local_port,
             dns_query, active_dns_query, dns_query_id_counter, net_tx,
             dhcp_fed, http_req, http_active, ws_conn, ws_stream, ws_active, tcp_iss,
             peer_sent, first_syn, tcp_dropped, dns_other, timerVars>>

GatewayIp == IP(2)
DnsServerIp == IP(3)
ClientIp == IP(15)
RemoteIp == <<1, 2, 3, 4>>

\* get_initial_seq is a 32-bit linear congruential generator; any value of
\* the scaled width may come out of it.
IssChoices == {0, SeqMod - 1}
\* ws_rand's four key bytes.
MaskKeys == {<<0, 0, 0, 0>>, <<1, 2, 3, 4>>}

ArpFrom(senders) ==
    {[kind |-> "arp", opcode |-> o, sender_ip |-> s, target_ip |-> ClientIp] :
        o \in {ARP_REQUEST, ARP_REPLY}, s \in senders}

DhcpReplies ==
    {[kind |-> "udp", src_ip |-> GatewayIp, dest_ip |-> d, src_port |-> 67, dest_port |-> 68,
      payload |-> [xid |-> x, msg_type |-> t, yiaddr |-> y, subnet |-> o[1],
                   router |-> o[2], dns |-> o[3], server_id |-> GatewayIp]] :
        d \in {broadcast_ip, ClientIp}, x \in {dhcp_xid, 1},
        t \in {DHCP_OFFER, DHCP_ACK}, y \in {ClientIp, IP(16)},
        o \in {<<<<>>, <<>>, <<>>>>, <<<<255, 255, 255, 0>>, GatewayIp, DnsServerIp>>}}

ARecord(ip) == [atype |-> 1, rdlen |-> 4, rdata |-> ip]
DnsAnswerSections ==
    {[ancount |-> 0, answers |-> <<>>],
     [ancount |-> 1, answers |-> <<ARecord(RemoteIp)>>],
     [ancount |-> 2, answers |-> <<[atype |-> 5, rdlen |-> 2, rdata |-> <<1, 0>>],
                                   ARecord(RemoteIp)>>],
     [ancount |-> 1, answers |-> <<[atype |-> 28, rdlen |-> 16,
                                   rdata |-> [i \in 1..16 |-> 0]]>>],
     [ancount |-> 1, answers |-> <<[atype |-> 1, rdlen |-> 4, rdata |-> <<1, 2>>]>>],
     [ancount |-> 1, answers |-> <<>>]}

DnsResponses(ids, sections) ==
    {[kind |-> "udp", src_ip |-> DnsServerIp, dest_ip |-> ClientIp,
      src_port |-> 53, dest_port |-> 12345,
      payload |-> [id |-> i, qr |-> q[1], rcode |-> q[2],
                   ancount |-> s.ancount, answers |-> s.answers]] :
        i \in ids, q \in {<<1, 0>>, <<1, 3>>, <<0, 0>>}, s \in sections}

\* Segments from the peer of connection i.
PeerSegments(i, flagsets, seqs, acks, payloads) ==
    LET c == connections[i]
    IN  {[kind |-> "tcp", src_ip |-> c.remote_ip, dest_ip |-> config.ip,
          src_port |-> c.remote_port, dest_port |-> c.local_port,
          seq |-> s, ack |-> (c.seq_num + a + SeqMod) % SeqMod,
          flags |-> f, data |-> d] :
            f \in flagsets, s \in seqs \cup {c.ack_num}, a \in acks,
            d \in {x \in payloads : peer_sent[i] + Len(x) <= MaxPeerBytes}}

\* The same, the peer sending at most max bytes over the connection.
PeerData(i, max, payloads) ==
    {pkt \in PeerSegments(i, {{TCP_PSH, TCP_ACK}}, {}, {0}, payloads) :
        peer_sent[i] + Len(pkt.data) <= max}

\* What dhcp_fed keeps of a reply: its type and address, whether it is a
\* broadcast carrying the client's xid, and the DHCP state it met.
DhcpFed(pkt, state) ==
    [msg_type |-> pkt.payload.msg_type, yiaddr |-> pkt.payload.yiaddr,
     valid |-> pkt.payload.xid = dhcp_xid /\ pkt.dest_ip = broadcast_ip,
     met |-> state]

\* The stack's variables after a call that left it in state N.
\* A deadline is kept as the ticks left to it while the code may still read
\* it, and as 0 from where it can no longer be read before it is set again:
\* tcp_poll reads timeout_tick in SYN_SENT, FIN_WAIT_1, FIN_WAIT_2 and
\* TIME_WAIT and retries in SYN_SENT, dns_resolve_poll reads the ticks of a
\* pending query.
Deadlines(N) ==
    [N EXCEPT
        !.connections = [i \in 0..(MaxConns - 1) |->
            [N.connections[i] EXCEPT
                !.timeout = IF N.connections[i].state \in
                                    {TCP_SYN_SENT, TCP_FIN_WAIT_1, TCP_FIN_WAIT_2,
                                     TCP_TIME_WAIT}
                            THEN @ ELSE 0,
                !.retries = IF N.connections[i].state = TCP_SYN_SENT THEN @ ELSE 0]],
        !.dns_query.timeout = IF N.dns_query.state = DNS_STATE_PENDING THEN @ ELSE 0,
        !.dns_query.retry = IF N.dns_query.state = DNS_STATE_PENDING THEN @ ELSE 0,
        !.dns_other.timeout = IF N.dns_other.state = DNS_STATE_PENDING THEN @ ELSE 0,
        !.dns_other.retry = IF N.dns_other.state = DNS_STATE_PENDING THEN @ ELSE 0]

\* The sequence number of the SYN that tx carries from local port `port`,
\* -1 when it carries none.
SynOnWire(tx, port) ==
    LET syns == {k \in 1..Len(tx) : /\ tx[k].kind = "tcp"
                                     /\ tx[k].flags = {TCP_SYN}
                                     /\ tx[k].src_port = port}
    IN  IF syns = {} THEN -1 ELSE tx[CHOOSE k \in syns : TRUE].seq

\* Whether tx carries a segment with payload from local port `port`.
DataOnWire(tx, port) ==
    \E k \in 1..Len(tx) : /\ tx[k].kind = "tcp"
                          /\ tx[k].src_port = port
                          /\ tx[k].data # <<>>

\* The state after a call that left the stack as N: rx is the frame the call
\* handled, iss what get_initial_seq returned to it, and sent the connection on
\* which tcp_send accepted payload during the call (-1 if none).
CommitCall(N, rx, iss, sent) ==
    /\ tcp_dropped' = [i \in 0..(MaxConns - 1) |->
                        IF DataOnWire(N.tx, N.connections[i].local_port) THEN FALSE
                        ELSE IF i = sent THEN TRUE
                        ELSE IF connections[i].state = TCP_CLOSED THEN FALSE
                        ELSE tcp_dropped[i]]
    /\ UNCHANGED timerVars
    /\ config' = N.config
    /\ arp_cache' = N.arp_cache
    /\ tick_counter' = N.tick_counter
    /\ connections' = Deadlines(N).connections
    /\ next_local_port' = N.next_local_port
    /\ dns_query' = Deadlines(N).dns_query
    /\ dns_other' = Deadlines(N).dns_other
    /\ active_dns_query' = N.active_dns_query
    /\ dns_query_id_counter' = N.dns_query_id_counter
    /\ net_tx' = N.tx
    /\ tcp_iss' = [i \in 0..(MaxConns - 1) |->
                    IF connections[i].state = TCP_CLOSED
                            /\ N.connections[i].state = TCP_SYN_SENT
                    THEN iss ELSE tcp_iss[i]]
    /\ peer_sent' = [i \in 0..(MaxConns - 1) |->
                    IF connections[i].state = TCP_CLOSED
                            /\ N.connections[i].state = TCP_SYN_SENT
                    THEN 0
                    ELSE IF rx.kind = "tcp"
                            /\ find_conn(NetState, rx.src_ip, rx.dest_port, rx.src_port) = i
                    THEN peer_sent[i] + Len(rx.data)
                    ELSE peer_sent[i]]
    /\ first_syn' = [i \in 0..(MaxConns - 1) |->
                    IF N.connections[i].state # TCP_SYN_SENT THEN -1
                    ELSE IF connections[i].state = TCP_SYN_SENT /\ first_syn[i] >= 0
                    THEN first_syn[i]
                    ELSE SynOnWire(N.tx, N.connections[i].local_port)]
    /\ dhcp_fed' = IF rx.kind = "udp" /\ rx.dest_port = 68
                   THEN (IF dhcp_fed = <<>> THEN <<>> ELSE <<dhcp_fed[Len(dhcp_fed)]>>)
                            \o <<DhcpFed(rx, config.dhcp_state)>>
                   ELSE dhcp_fed

Commit(N, rx, iss) == CommitCall(N, rx, iss, -1)

NetPoll(pkt) ==
    /\ \E N \in {NetState} : \E N1 \in {net_poll(N, pkt)} : Commit(N1, pkt, 0)
    /\ UNCHANGED <<http_req, http_active, ws_conn, ws_stream, ws_active>>

DnsResolveStart ==
    /\ Commit(dns_resolve_start(NetState), NoPacket, 0)
    /\ UNCHANGED <<http_req, http_active, ws_conn, ws_stream, ws_active>>

DnsResolvePoll ==
    /\ Commit(dns_resolve_poll(NetState).net, NoPacket, 0)
    /\ UNCHANGED <<http_req, http_active, ws_conn, ws_stream, ws_active>>

DnsResolveStartOther ==
    /\ Commit(dns_resolve_start_other(NetState), NoPacket, 0)
    /\ UNCHANGED <<http_req, http_active, ws_conn, ws_stream, ws_active>>

DnsResolvePollOther ==
    /\ Commit(dns_resolve_poll_other(NetState).net, NoPacket, 0)
    /\ UNCHANGED <<http_req, http_active, ws_conn, ws_stream, ws_active>>

TcpConnect(ip, port, iss) ==
    /\ Commit(tcp_connect(NetState, ip, port, iss).net, NoPacket, iss)
    /\ UNCHANGED <<http_req, http_active, ws_conn, ws_stream, ws_active>>

TcpSend(idx, data) ==
    /\ Commit(tcp_send(NetState, idx, data).net, NoPacket, 0)
    /\ UNCHANGED <<http_req, http_active, ws_conn, ws_stream, ws_active>>

\* tcp_send, with the record of the payload it accepted.
TcpSendTracked(idx, data) ==
    /\ \E r \in {tcp_send(NetState, idx, data)} :
            CommitCall(r.net, NoPacket, 0, IF r.ret > 0 THEN idx ELSE -1)
    /\ UNCHANGED <<http_req, http_active, ws_conn, ws_stream, ws_active>>

TcpRecv(idx, max_len) ==
    /\ Commit(tcp_recv(NetState, idx, max_len).net, NoPacket, 0)
    /\ UNCHANGED <<http_req, http_active, ws_conn, ws_stream, ws_active>>

TcpClose(idx) ==
    /\ Commit(tcp_close(NetState, idx), NoPacket, 0)
    /\ UNCHANGED <<http_req, http_active, ws_conn, ws_stream, ws_active>>

\* The callers start a request only when none is in progress, poll it while
\* it is, and close it once it is done or failed.
HttpStart(url, iss) ==
    LET r == http_request_start(NetState, url, iss)
    IN  /\ http_active = 0
        /\ Commit(r.net, NoPacket, iss)
        /\ http_req' = r.req
        /\ http_active' = IF r.ret = 0 THEN 1 ELSE 0
        /\ UNCHANGED <<ws_conn, ws_stream, ws_active>>

HttpPoll(iss) ==
    /\ http_active = 1
    /\ \E N \in {NetState} : \E r \in {http_request_poll(N, http_req, iss)} :
        /\ Commit(r.net, NoPacket, iss)
        /\ http_req' = r.req
        /\ UNCHANGED <<http_active, ws_conn, ws_stream, ws_active>>

HttpClose ==
    LET r == http_request_close(NetState, http_req)
    IN  /\ http_active = 1
        /\ http_req.state \in {HTTP_STATE_DONE, HTTP_STATE_ERROR}
        /\ Commit(r.net, NoPacket, 0)
        /\ http_req' = r.req
        /\ http_active' = 0
        /\ UNCHANGED <<ws_conn, ws_stream, ws_active>>

WsConnect(url, iss) ==
    LET r == ws_connect(NetState, url, iss)
    IN  /\ ws_active = 0
        /\ Commit(r.net, NoPacket, iss)
        /\ ws_conn' = r.ws
        /\ ws_stream' = <<>>
        /\ ws_active' = IF r.ret = 0 THEN 1 ELSE 0
        /\ UNCHANGED <<http_req, http_active>>

WsPoll(mask_key) ==
    LET r == ws_poll(NetState, ws_conn, mask_key)
    IN  /\ ws_active = 1
        /\ Commit(r.net, NoPacket, 0)
        /\ ws_conn' = r.ws
        /\ ws_stream' = ws_stream \o r.frames
        /\ UNCHANGED <<http_req, http_active, ws_active>>

WsClose(mask_key) ==
    LET r == ws_close(NetState, ws_conn, mask_key)
    IN  /\ ws_active = 1
        /\ Commit(r.net, NoPacket, 0)
        /\ ws_conn' = r.ws
        /\ ws_active' = 0
        /\ UNCHANGED <<http_req, http_active, ws_stream>>

\* The stack with configuration cfg, which the DHCP replies in fed led to:
\* the i-th of them met DHCP state i.
NetStart(cfg, fed) ==
    /\ config = cfg
    /\ arp_cache = [i \in 1..ArpCacheSize |-> [valid |-> 0, ip |-> ZeroIp]]
    /\ tick_counter = 0
    /\ connections = [i \in 0..(MaxConns - 1) |-> ZeroConn]
    /\ next_local_port = FIRST_LOCAL_PORT
    /\ dns_query = ZeroDnsQuery
    /\ dns_other = ZeroDnsQuery
    /\ active_dns_query = FALSE
    /\ dns_query_id_counter = 1
    /\ net_tx = <<>>
    /\ dhcp_fed = [i \in 1..Len(fed) |-> DhcpFed(fed[i], i)]
    /\ http_req = ZeroRequest
    /\ http_active = 0
    /\ ws_conn = ZeroWebsocket
    /\ ws_stream = <<>>
    /\ ws_active = 0
    /\ tcp_iss = [i \in 0..(MaxConns - 1) |-> 0]
    /\ peer_sent = [i \in 0..(MaxConns - 1) |-> 0]
    /\ first_syn = [i \in 0..(MaxConns - 1) |-> -1]
    /\ tcp_dropped = [i \in 0..(MaxConns - 1) |-> FALSE]
    /\ tcp_ticks = 0
    /\ timed_conn = [state |-> TCP_CLOSED, timeout_tick |-> 0, retries |-> 0]
    /\ phase_polls = 0
    /\ tick_counter_w = 0
    /\ timed_query = [state |-> DNS_STATE_IDLE, timeout_tick |-> 0, retry_tick |-> 0]
    /\ query_polls = 0

\* ---- the timers at their width ------------------------------------------
\* tcp_connect: the deadline of the first SYN.
tcp_connect_w(ticks, conn) ==
    [state |-> TCP_SYN_SENT, timeout_tick |-> (ticks + SynTicks) % TickMod,
     retries |-> 0]

\* tcp_close
tcp_close_w(ticks, conn) ==
    IF conn.state = TCP_ESTABLISHED
    THEN [conn EXCEPT !.state = TCP_FIN_WAIT_1,
                      !.timeout_tick = (ticks + FinTicks) % TickMod]
    ELSE [conn EXCEPT !.state = TCP_CLOSED]

\* tcp_handle_packet for a segment of the connection with these flags (a
\* SYN|ACK is one that acknowledges the SYN).
tcp_handle_packet_w(ticks, conn, flags) ==
    LET time_wait == [conn EXCEPT !.state = TCP_TIME_WAIT,
                                  !.timeout_tick = (ticks + TimeWaitTicks) % TickMod]
    IN  IF TCP_RST \in flags THEN [conn EXCEPT !.state = TCP_CLOSED]
        ELSE IF conn.state = TCP_SYN_SENT
        THEN IF {TCP_SYN, TCP_ACK} \subseteq flags
             THEN [conn EXCEPT !.state = TCP_ESTABLISHED] ELSE conn
        ELSE IF conn.state = TCP_ESTABLISHED
        THEN IF TCP_FIN \in flags THEN [conn EXCEPT !.state = TCP_LAST_ACK] ELSE conn
        ELSE IF conn.state = TCP_FIN_WAIT_1
        THEN IF TCP_FIN \in flags THEN time_wait
             ELSE IF TCP_ACK \in flags THEN [conn EXCEPT !.state = TCP_FIN_WAIT_2]
             ELSE conn
        ELSE IF conn.state = TCP_FIN_WAIT_2
        THEN IF TCP_FIN \in flags THEN time_wait ELSE conn
        ELSE IF conn.state = TCP_LAST_ACK
        THEN IF TCP_ACK \in flags THEN [conn EXCEPT !.state = TCP_CLOSED] ELSE conn
        ELSE conn

\* tcp_poll for one connection, ticks being tcp_ticks after its increment.
tcp_poll_w(ticks, conn) ==
    IF conn.state = TCP_CLOSED \/ ~(ticks > conn.timeout_tick) THEN conn
    ELSE IF conn.state = TCP_SYN_SENT
    THEN IF conn.retries + 1 > MaxSynRetries
         THEN [conn EXCEPT !.retries = @ + 1, !.state = TCP_CLOSED]
         ELSE [conn EXCEPT !.retries = @ + 1,
                           !.timeout_tick = (ticks + SynTicks) % TickMod]
    ELSE IF conn.state \in {TCP_FIN_WAIT_1, TCP_FIN_WAIT_2, TCP_TIME_WAIT}
    THEN [conn EXCEPT !.state = TCP_CLOSED]
    ELSE conn

\* The phase of a connection state.
Phase(state) ==
    IF state = TCP_SYN_SENT THEN "opening"
    ELSE IF state \in {TCP_FIN_WAIT_1, TCP_FIN_WAIT_2, TCP_TIME_WAIT} THEN "closing"
    ELSE "other"

TimedCommit(conn, polled) ==
    /\ timed_conn' = conn
    /\ phase_polls' = IF Phase(conn.state) # Phase(timed_conn.state) THEN 0
                      ELSE IF polled THEN Min(phase_polls + 1, MaxPhasePolls)
                      ELSE phase_polls
    /\ UNCHANGED <<config, arp_cache, tick_counter, connections, next_local_port,
                   dns_query, active_dns_query, dns_query_id_counter, net_tx,
                   dhcp_fed, http_req, http_active, ws_conn, ws_stream, ws_active,
                   tcp_iss, peer_sent, first_syn, tcp_dropped, dns_other>>

TimedConnect ==
    /\ timed_conn.state = TCP_CLOSED
    /\ TimedCommit(tcp_connect_w(tcp_ticks, timed_conn), FALSE)
    /\ UNCHANGED <<tcp_ticks, dnsTimerVars>>

TimedClose ==
    /\ timed_conn.state # TCP_CLOSED
    /\ TimedCommit(tcp_close_w(tcp_ticks, timed_conn), FALSE)
    /\ UNCHANGED <<tcp_ticks, dnsTimerVars>>

\* dns_resolve_start: the two deadlines.
dns_resolve_start_w(ticks) ==
    [state |-> DNS_STATE_PENDING,
     timeout_tick |-> (ticks + DnsTimeoutTicks) % TickMod,
     retry_tick |-> (ticks + DnsFirstRetryTicks) % TickMod]

\* dns_resolve_poll: the query afterwards and whether dns_retry was called.
dns_resolve_poll_w(ticks, q) ==
    IF q.state # DNS_STATE_PENDING THEN [q |-> q, resent |-> FALSE]
    ELSE IF ticks > q.timeout_tick
    THEN [q |-> [q EXCEPT !.state = DNS_STATE_ERROR], resent |-> FALSE]
    ELSE IF ticks > q.retry_tick
    THEN [q |-> [q EXCEPT !.retry_tick = (ticks + DnsRetryTicks) % TickMod],
          resent |-> TRUE]
    ELSE [q |-> q, resent |-> FALSE]

TimedDnsStart ==
    /\ timed_query.state # DNS_STATE_PENDING
    /\ timed_query' = dns_resolve_start_w(tick_counter_w)
    /\ query_polls' = 0
    /\ TimedCommit(timed_conn, FALSE)
    /\ UNCHANGED <<tcp_ticks, tick_counter_w>>


\* net_poll: the segment received, if any, then tcp_poll.
TimedPoll(flags) ==
    LET ticks == (tcp_ticks + 1) % TickMod
        handled == IF flags = {} \/ timed_conn.state = TCP_CLOSED THEN timed_conn
                   ELSE tcp_handle_packet_w(tcp_ticks, timed_conn, flags)
    IN  /\ tcp_ticks' = ticks
        /\ tick_counter_w' = (tick_counter_w + 1) % TickMod
        /\ query_polls' = IF timed_query.state = DNS_STATE_PENDING
                          THEN Min(query_polls + 1, MaxPhasePolls) ELSE query_polls
        /\ UNCHANGED timed_query
        /\ TimedCommit(tcp_poll_w(ticks, handled), TRUE)

\* One turn of the caller's loop while it resolves a name: net_poll, then
\* dns_resolve_poll.
TimedDnsLoop ==
    LET ticks == (tick_counter_w + 1) % TickMod
    IN  /\ tcp_ticks' = (tcp_ticks + 1) % TickMod
        /\ tick_counter_w' = ticks
        /\ timed_query' = dns_resolve_poll_w(ticks, timed_query).q
        /\ query_polls' = IF timed_query.state = DNS_STATE_PENDING
                          THEN Min(query_polls + 1, MaxPhasePolls) ELSE query_polls
        /\ TimedCommit(tcp_poll_w((tcp_ticks + 1) % TickMod, timed_conn), TRUE)

\* After net_init, before the first net_poll.
NetInit ==
    NetStart([ip |-> ZeroIp, subnet |-> <<255, 255, 255, 0>>, gateway |-> ZeroIp,
              dns |-> ZeroIp, configured |-> 0, dhcp_state |-> DHCP_IDLE], <<>>)

\* After the third net_poll of a boot in which the DHCP server answered the
\* discover and the request at once: the ARP cache is still empty.
DhcpReply(t) ==
    [kind |-> "udp", src_ip |-> GatewayIp, dest_ip |-> broadcast_ip,
     src_port |-> 67, dest_port |-> 68,
     payload |-> [xid |-> dhcp_xid, msg_type |-> t, yiaddr |-> ClientIp,
                  subnet |-> <<255, 255, 255, 0>>, router |-> GatewayIp,
                  dns |-> DnsServerIp, server_id |-> GatewayIp]]

NetConfigured ==
    NetStart([ip |-> ClientIp, subnet |-> <<255, 255, 255, 0>>, gateway |-> GatewayIp,
              dns |-> DnsServerIp, configured |-> 1, dhcp_state |-> DHCP_CONFIGURED],
             <<DhcpReply(DHCP_OFFER), DhcpReply(DHCP_ACK)>>)

(***************************************************************************)
(* Specifications                                                          *)
(***************************************************************************)
(***************************************************************************)
(* Virtio drivers: initialisation and the calls that depend on it          *)
(* (src/kernel/drivers/virtio/net.c, src/c/kernel/drivers/virtio/blk.c)    *)
(*                                                                         *)
(* A pointer is modelled by whether it has been set.  A store through a    *)
(* null pointer (undefined behaviour) either stops the CPU with a fault or *)
(* goes unnoticed: both outcomes are explored.                             *)
(***************************************************************************)

\* Descriptors per virtio-net queue (16 in the source).
QUEUE_SIZE == 2
\* Number of driver calls and device deliveries explored.
MaxDrvCalls == 6

PACKET_BUF_SIZE == 2048
VIRTIO_NET_HDR_SIZE == 10
VIRTIO_BLK_S_OK == 0
VIRTIO_BLK_S_IOERR == 1
\* "vq_num = 16" in virtqueue_init
BlkQueueSize == 16
\* Descriptors one block request takes: header, data, status.
BlkDescsPerRequest == 3
\* The status byte as do_blk_io presets it.
BlkStatusUnset == 255
\* Device status bits.
VIRTIO_STATUS_ACK == 1
VIRTIO_STATUS_DRIVER == 2
VIRTIO_STATUS_DRIVER_OK == 4
VIRTIO_STATUS_FEATURES_OK == 8
\* The virtio drivers of the kernel.
Drivers == {"blk", "net", "input", "gpu"}
\* Number of block requests explored.
MaxBlkRequests == 3

VARIABLES
    virtio_net,     \* statics of net.c: status flags, queue pointers, indices
    net_device,     \* the NIC: [present, rx_max, tx_max, used_idx], the receive
                    \* descriptors it holds (owned) and the used-ring entries the
                    \* driver has not read yet (used)
    blk_driver,     \* statics of blk.c: [initialized, vq_num]
    blk_device,     \* the disk as probed: [present, max_num]
    cpu_halted,     \* a null-pointer store has stopped the CPU
    drv_booted,     \* the drivers whose init function has run
    drv_last,       \* the last driver call: [op, ret]
    drv_calls,
    tx_buffer_data, \* the frame the single TX buffer of net.c holds (0: none)
    tx_ring,        \* TX descriptors published and not yet returned by the NIC:
                    \* [desc, frame], frame being the one the caller submitted
    tx_wire,        \* the last frame the NIC transmitted: [meant, sent]
    blk_req,        \* do_blk_io: the request being waited for (0: not in a call),
                    \* the one req_header holds, and the number issued so far
    blk_queue,      \* the block queue: unfetched avail entries, used.idx,
                    \* vq_last_used, the status byte, the request the device
                    \* is working on (0: none)
    blk_completed,  \* the completions the device has written: [req, status]
    blk_result,     \* the last return of do_blk_io: [req, ret]
    dev_version,    \* per driver, VERSION as its init function read it (0: the
                    \* init function has not run)
    mmio_log,       \* per driver, the registers its init function has written
                    \* so far: [reg, val]
    sub_drv,        \* the driver inside its submit path ("none": no one is)
    sub_pc,         \* the next statement of that submit path
    sub_req,        \* per driver, the requests it has begun to submit
    sub_buf,        \* stores the CPU has issued and the device cannot see yet
    visible,        \* stores that have reached the memory the device reads
    dev_seen,       \* the stores the device found at its last look
    input_dev,      \* one struct input_device and its event queue: queue_size,
                    \* avail.idx, last_used, used.idx, the two rings, and the
                    \* avail index the device has fetched up to (dev_avail)
    input_last,     \* the last step of the input queue and the used entries
                    \* it consumed: [op, consumed]
    gpu,            \* statics of gpu.c: [booted, gpu_base, gpu_initialized,
                    \* scanout_set]; booted tells that virtio_gpu_init has run
    gpu_cmds,       \* the commands handed to send_command so far, each with
                    \* whether the device answered within the wait: [type, answered]
    gpu_flushes     \* the calls of virtio_gpu_flush so far

\* The TX side of the NIC's queue.
txVars == <<tx_buffer_data, tx_ring, tx_wire>>

\* The block queue during do_blk_io.
blkioVars == <<blk_req, blk_queue, blk_completed, blk_result>>

\* The statics of the drivers and the devices as probed.
coreVars == <<virtio_net, net_device, blk_driver, blk_device, cpu_halted,
              drv_booted, drv_last, drv_calls>>

\* The MMIO handshake of the init functions.
initVars == <<dev_version, mmio_log>>

\* One submit, statement by statement, and the order its stores land in.
orderVars == <<sub_drv, sub_pc, sub_req, sub_buf, visible, dev_seen>>

\* The statement-level models of the queues.
\* The event queue of an input device.
evVars == <<input_dev, input_last>>

\* The GPU's control queue.
scanVars == <<gpu, gpu_cmds, gpu_flushes>>

stepVars == <<orderVars, evVars, scanVars>>

\* What the driver calls of the coarse model leave alone.
queueVars == <<txVars, blkioVars, initVars, stepVars>>

drvVars == <<virtio_net, net_device, blk_driver, blk_device, cpu_halted,
             drv_booted, drv_last, drv_calls, queueVars>>

\* The frames a caller hands to virtio_net_send.
TxFrames == {1, 2}

NetDevices == [present : BOOLEAN, rx_max : {0, QUEUE_SIZE},
               tx_max : {0, QUEUE_SIZE}, used_idx : {0},
               owned : {<<>>}, used : {<<>>}]

\* The lengths the NIC reports for a received buffer: the virtio-net header
\* alone, or the header and a frame.
RxLens == {VIRTIO_NET_HDR_SIZE, VIRTIO_NET_HDR_SIZE + 60}
BlkDevices == [present : BOOLEAN, max_num : {0, 2, BlkQueueSize}]

\* init_queue_at: TRUE when the out pointers are set, FALSE on the early
\* return that leaves them as they were.
init_queue_at(max_size) == ~(max_size = 0 \/ max_size < QUEUE_SIZE)

\* virtio_net_init.  `halt` is the outcome of setup_rx_buffers storing
\* through rx_desc when init_queue_at has left it null.
virtio_net_init(d, dev, halt) ==
    LET cleared == [d EXCEPT !.detected = 0, !.available = 0, !.link_up = 0]
        found == [cleared EXCEPT !.detected = 1, !.tx_buffer = TRUE]
        rx == [found EXCEPT !.rx_desc = @ \/ init_queue_at(dev.rx_max)]
        tx == [rx EXCEPT !.tx_desc = @ \/ init_queue_at(dev.tx_max)]
    IN  IF ~dev.present
        THEN [d |-> [cleared EXCEPT !.detected = 1], halted |-> FALSE]
        ELSE IF ~rx.rx_desc /\ halt THEN [d |-> rx, halted |-> TRUE]
        ELSE [d |-> [tx EXCEPT !.available = 1, !.link_up = 1,
                               !.rx_avail_idx = IF rx.rx_desc THEN QUEUE_SIZE ELSE @],
              halted |-> FALSE]

\* virtio_net_send in the driver.  `halt` is the outcome of the store through tx_desc when
\* it is null.
virtio_net_send_drv(d, len, halt) ==
    IF d.available = 0 \/ ~d.tx_buffer
       \/ len > PACKET_BUF_SIZE - VIRTIO_NET_HDR_SIZE
    THEN [d |-> d, ret |-> -1, halted |-> FALSE]
    ELSE IF ~d.tx_desc /\ halt THEN [d |-> d, ret |-> 0, halted |-> TRUE]
    ELSE [d |-> [d EXCEPT !.tx_free_desc = (@ + 1) % QUEUE_SIZE],
          ret |-> 0, halted |-> FALSE]

\* virtio_net_recv into a buffer of max_len bytes.  `taken` is the used-ring
\* entry it consumed (<<>> if none), `readded` the descriptor it put back on
\* the available ring (<<>> if none).
virtio_net_recv(d, dev, max_len) ==
    IF d.available = 0 \/ ~d.rx_desc
    THEN [d |-> d, ret |-> 0, taken |-> <<>>, readded |-> <<>>]
    ELSE IF dev.used_idx = d.rx_last_used
    THEN [d |-> d, ret |-> 0, taken |-> <<>>, readded |-> <<>>]
    ELSE LET entry == Head(dev.used)
             skipped == [d |-> [d EXCEPT !.rx_last_used = @ + 1], ret |-> 0,
                         taken |-> <<entry>>, readded |-> <<>>]
             pkt_len == Min(entry.len - VIRTIO_NET_HDR_SIZE, max_len)
         IN  IF entry.id >= QUEUE_SIZE THEN skipped
             ELSE IF entry.len <= VIRTIO_NET_HDR_SIZE THEN skipped
             ELSE [d |-> [d EXCEPT !.rx_avail_idx = @ + 1, !.rx_last_used = @ + 1],
                   ret |-> pkt_len, taken |-> <<entry>>, readded |-> <<entry.id>>]

\* blk_init
blk_init(b, dev) ==
    IF ~dev.present THEN b
    ELSE [b EXCEPT !.initialized = 1,
                   !.vq_num = IF dev.max_num > 0 /\ dev.max_num < BlkQueueSize
                              THEN dev.max_num ELSE BlkQueueSize]

\* do_blk_io for one sector.  dev_status is what the device writes into the
\* status byte; a device whose queue could not be set up never completes the
\* request and the byte keeps its preset value.
do_blk_io(b, dev, count, dev_status) ==
    LET status_byte == IF dev.max_num = 0 THEN BlkStatusUnset ELSE dev_status
    IN  IF b.initialized = 0 THEN -1
        ELSE IF count = 0 THEN 0
        ELSE IF b.vq_num < BlkDescsPerRequest THEN -1
        ELSE IF status_byte # VIRTIO_BLK_S_OK THEN -1
        ELSE 0

\* ---- actions ----------------------------------------------------------
DrvCommit(op, ret) ==
    /\ ~cpu_halted
    /\ drv_calls < MaxDrvCalls
    /\ drv_calls' = drv_calls + 1
    /\ drv_last' = [op |-> op, ret |-> ret]

VirtioNetInit(dev, halt) ==
    LET r == virtio_net_init(virtio_net, dev, halt)
    IN  /\ "net" \notin drv_booted
        /\ DrvCommit("net_init", 0)
        /\ virtio_net' = r.d
        /\ net_device' = [dev EXCEPT !.owned =
                              IF r.d.available = 1 /\ r.d.rx_desc
                              THEN [i \in 1..QUEUE_SIZE |-> i - 1] ELSE <<>>]
        /\ cpu_halted' = r.halted
        /\ drv_booted' = drv_booted \cup {"net"}
        /\ UNCHANGED <<blk_driver, blk_device, queueVars>>

VirtioNetSend(len, halt) ==
    LET r == virtio_net_send_drv(virtio_net, len, halt)
    IN  /\ DrvCommit("send", r.ret)
        /\ virtio_net' = r.d
        /\ cpu_halted' = r.halted
        /\ UNCHANGED <<net_device, blk_driver, blk_device, drv_booted, queueVars>>

VirtioNetRecv ==
    LET r == virtio_net_recv(virtio_net, net_device, PACKET_BUF_SIZE)
    IN  /\ DrvCommit("recv", r.ret)
        /\ virtio_net' = r.d
        /\ net_device' = [net_device EXCEPT
                              !.used = IF r.taken = <<>> THEN @ ELSE Tail(@),
                              !.owned = @ \o r.readded]
        /\ UNCHANGED <<blk_driver, blk_device, cpu_halted, drv_booted, queueVars>>

\* The NIC fills the next receive buffer it has been given and reports it in
\* the used ring with the length it wrote.
DeviceDeliver(len) ==
    /\ net_device.present /\ init_queue_at(net_device.rx_max)
    /\ virtio_net.available = 1
    /\ net_device.owned # <<>>
    /\ DrvCommit("deliver", 0)
    /\ net_device' = [net_device EXCEPT
                          !.used_idx = @ + 1,
                          !.owned = Tail(@),
                          !.used = Append(@, [id |-> Head(net_device.owned), len |-> len])]
    /\ UNCHANGED <<virtio_net, blk_driver, blk_device, cpu_halted, drv_booted, queueVars>>

\* virtio_net_send of `frame`, seen from the TX queue: the frame is copied
\* into the one TX buffer, then the descriptor tx_free_desc is published.
VirtioNetSendFrame(frame, halt) ==
    LET r == virtio_net_send_drv(virtio_net, 60, halt)
    IN  /\ DrvCommit("send", r.ret)
        /\ virtio_net' = r.d
        /\ cpu_halted' = r.halted
        /\ tx_buffer_data' = IF r.ret = 0 THEN frame ELSE tx_buffer_data
        /\ tx_ring' = IF r.ret = 0 /\ ~r.halted /\ virtio_net.tx_desc
                      THEN Append(tx_ring, [desc |-> virtio_net.tx_free_desc,
                                            frame |-> frame])
                      ELSE tx_ring
        /\ UNCHANGED <<net_device, blk_driver, blk_device, drv_booted, tx_wire,
                       blkioVars, initVars, stepVars>>

\* The NIC takes the oldest published TX descriptor, transmits what the
\* buffer it points at holds, and returns the descriptor in the used ring.
DeviceTransmit ==
    /\ tx_ring # <<>>
    /\ DrvCommit("transmit", 0)
    /\ tx_wire' = [meant |-> Head(tx_ring).frame, sent |-> tx_buffer_data]
    /\ tx_ring' = Tail(tx_ring)
    /\ UNCHANGED <<virtio_net, net_device, blk_driver, blk_device, cpu_halted,
                   drv_booted, tx_buffer_data, blkioVars, initVars, stepVars>>

BlkInit(dev) ==
    /\ "blk" \notin drv_booted
    /\ DrvCommit("blk_init", 0)
    /\ blk_driver' = blk_init(blk_driver, dev)
    /\ blk_device' = dev
    /\ drv_booted' = drv_booted \cup {"blk"}
    /\ UNCHANGED <<virtio_net, net_device, cpu_halted, queueVars>>

BlkIo(op, count, dev_status) ==
    /\ DrvCommit(op, do_blk_io(blk_driver, blk_device, count, dev_status))
    /\ UNCHANGED <<virtio_net, net_device, blk_driver, blk_device, cpu_halted,
                   drv_booted, queueVars>>

\* do_blk_io up to the notify: the header, the preset status byte, the
\* three descriptors, the avail entry.  Requests are numbered as issued.
BlkIoSubmit ==
    /\ blk_req.waiting = 0
    /\ blk_req.issued < MaxBlkRequests
    /\ blk_driver.initialized = 1
    /\ blk_driver.vq_num >= BlkDescsPerRequest
    /\ blk_req' = [waiting |-> blk_req.issued + 1, header |-> blk_req.issued + 1,
                   issued |-> blk_req.issued + 1]
    /\ blk_queue' = [blk_queue EXCEPT !.status_byte = BlkStatusUnset,
                                      !.avail = @ + 1]
    /\ UNCHANGED <<coreVars, initVars, stepVars, txVars, blk_completed, blk_result>>

\* do_blk_io from the wait loop on.  The loop ends when used.idx differs
\* from vq_last_used or when its counter has run down; then vq_last_used
\* follows used.idx and the status byte decides the return value.
BlkIoReturn(timed_out) ==
    /\ blk_req.waiting # 0
    /\ timed_out = (blk_queue.used_idx = blk_queue.last_used)
    /\ blk_result' = [req |-> blk_req.waiting,
                      ret |-> IF blk_queue.status_byte # VIRTIO_BLK_S_OK THEN -1 ELSE 0]
    /\ blk_queue' = [blk_queue EXCEPT !.last_used = blk_queue.used_idx]
    /\ blk_req' = [blk_req EXCEPT !.waiting = 0]
    /\ UNCHANGED <<coreVars, initVars, stepVars, txVars, blk_completed>>

\* The disk takes the next avail entry and reads the request header its
\* chain points at.
BlkDeviceFetch ==
    /\ blk_queue.avail > 0
    /\ blk_queue.device_req = 0
    /\ blk_queue' = [blk_queue EXCEPT !.avail = @ - 1, !.device_req = blk_req.header]
    /\ UNCHANGED <<coreVars, initVars, stepVars, txVars, blk_req, blk_completed, blk_result>>

\* The disk finishes the request it fetched: it writes the status byte and
\* advances used.idx.
BlkDeviceComplete(st) ==
    /\ blk_queue.device_req # 0
    /\ blk_queue' = [blk_queue EXCEPT !.status_byte = st, !.used_idx = @ + 1,
                                      !.device_req = 0]
    /\ blk_completed' = blk_completed \cup {[req |-> blk_queue.device_req, status |-> st]}
    /\ UNCHANGED <<coreVars, initVars, stepVars, txVars, blk_req, blk_result>>

\* ---- the MMIO handshake ------------------------------------------------
W(reg, val) == [reg |-> reg, val |-> val]

\* virtqueue_init of blk.c and gpu.c, init_virtqueue of input.c, for queue 0.
virtqueue_init(version) ==
    <<W("QUEUE_SEL", 0), W("QUEUE_NUM", QUEUE_SIZE)>>
    \o (IF version = 1
        THEN <<W("QUEUE_ALIGN", 4096), W("QUEUE_PFN", 1)>>
        ELSE <<W("QUEUE_DESC", 1), W("QUEUE_AVAIL", 1), W("QUEUE_USED", 1),
               W("QUEUE_READY", 1)>>)

\* init_queue_at of net.c: the legacy registers whatever the version.
init_queue_at_writes(queue_num) ==
    <<W("QUEUE_SEL", queue_num), W("QUEUE_NUM", QUEUE_SIZE), W("QUEUE_ALIGN", 4096),
      W("QUEUE_PFN", 1)>>

\* The two endings of every init function.
set_driver_ok(version) ==
    IF version = 1
    THEN <<W("STATUS", VIRTIO_STATUS_ACK + VIRTIO_STATUS_DRIVER + VIRTIO_STATUS_DRIVER_OK)>>
    ELSE <<W("STATUS", VIRTIO_STATUS_ACK + VIRTIO_STATUS_DRIVER + VIRTIO_STATUS_FEATURES_OK),
           W("STATUS", VIRTIO_STATUS_ACK + VIRTIO_STATUS_DRIVER + VIRTIO_STATUS_FEATURES_OK
                            + VIRTIO_STATUS_DRIVER_OK)>>

\* Reset, the legacy page size, ACK, DRIVER.
reset_and_acknowledge(version) ==
    <<W("STATUS", 0)>>
    \o (IF version = 1 THEN <<W("GUEST_PAGE_SIZE", 4096)>> ELSE <<>>)
    \o <<W("STATUS", VIRTIO_STATUS_ACK),
         W("STATUS", VIRTIO_STATUS_ACK + VIRTIO_STATUS_DRIVER)>>

accept_features ==
    <<W("DEV_FEAT_SEL", 0), W("DRV_FEAT_SEL", 0), W("DRV_FEAT", 0)>>

\* blk_init setting the queue up before it accepts the features.
blk_init_writes_queue_first(version) ==
    reset_and_acknowledge(version) \o virtqueue_init(version)
        \o accept_features \o set_driver_ok(version)

\* The register writes of blk_init when it has found a device of this version.
blk_init_writes(version) ==
    reset_and_acknowledge(version) \o accept_features
        \o virtqueue_init(version) \o set_driver_ok(version)

virtio_net_init_writes(version) ==
    reset_and_acknowledge(version) \o <<W("DRV_FEAT", 0)>>
        \o init_queue_at_writes(0) \o <<W("QUEUE_NOTIFY", 0)>>
        \o init_queue_at_writes(1) \o set_driver_ok(version)

init_input_device_writes(version) ==
    reset_and_acknowledge(version) \o accept_features
        \o virtqueue_init(version) \o <<W("QUEUE_NOTIFY", 0)>>
        \o set_driver_ok(version) \o <<W("QUEUE_NOTIFY", 0)>>

\* virtio_gpu_init up to DRIVER_OK; the display commands follow.
virtio_gpu_init_writes(version) ==
    reset_and_acknowledge(version) \o accept_features
        \o virtqueue_init(version) \o set_driver_ok(version)

InitWrites(d, version) ==
    IF d = "blk" THEN blk_init_writes(version)
    ELSE IF d = "net" THEN virtio_net_init_writes(version)
    ELSE IF d = "input" THEN init_input_device_writes(version)
    ELSE virtio_gpu_init_writes(version)

\* The init functions run one after the other; each performs its next
\* register write.  The first step reads VERSION.
DriverInitStep(d, version) ==
    LET v == IF dev_version[d] = 0 THEN version ELSE dev_version[d]
        writes == InitWrites(d, v)
    IN  /\ \A o \in Drivers \ {d} :
                dev_version[o] = 0 \/ mmio_log[o] = InitWrites(o, dev_version[o])
        /\ dev_version[d] \in {0, version}
        /\ Len(mmio_log[d]) < Len(writes)
        /\ dev_version' = [dev_version EXCEPT ![d] = v]
        /\ mmio_log' = [mmio_log EXCEPT ![d] = Append(@, writes[Len(@) + 1])]
        /\ UNCHANGED <<coreVars, txVars, blkioVars, stepVars>>

\* The drivers that submit requests while the system runs.
SubmitDrivers == {"blk", "net", "gpu"}

MaxSubmits == 2

\* The submit path of do_blk_io as the stores it issues and the barriers
\* between them: three descriptors, `dmb sy`, the ring slot, `dmb sy`,
\* avail.idx, `dmb sy`, and mmio_write, which ends with a `dmb sy` of its own.
do_blk_io_stores ==
    <<"desc0", "desc1", "desc2", "dmb", "slot", "dmb", "idx", "dmb", "notify", "dmb">>

\* send_command of gpu.c: two descriptors, then as do_blk_io.
send_command_stores ==
    <<"desc0", "desc1", "dmb", "slot", "dmb", "idx", "dmb", "notify", "dmb">>

\* virtio_net_send: one descriptor and the ring slot, `dmb sy`, avail.idx++,
\* and an mmio_write that is a plain volatile store with no barrier.
virtio_net_send_stores ==
    <<"desc0", "slot", "dmb", "idx", "notify">>

SubmitStores(d) ==
    CASE d = "blk" -> do_blk_io_stores
      [] d = "gpu" -> send_command_stores
      [] d = "net" -> virtio_net_send_stores

\* A driver enters its submit path.
SubmitBegin(d) ==
    /\ sub_drv = "none"
    /\ sub_req["blk"] + sub_req["net"] + sub_req["gpu"] < MaxSubmits
    /\ sub_drv' = d
    /\ sub_pc' = 1
    /\ sub_req' = [sub_req EXCEPT ![d] = @ + 1]
    /\ UNCHANGED <<sub_buf, visible, dev_seen>>
    /\ UNCHANGED <<coreVars, txVars, blkioVars, initVars, evVars, scanVars>>

\* The CPU executes the next statement: a store joins the stores in flight,
\* a `dmb sy` completes only when none is in flight.  After the last
\* statement the submit path is left.
SubmitStep ==
    /\ sub_drv # "none"
    /\ LET prog == SubmitStores(sub_drv)
           stmt == prog[sub_pc]
       IN  /\ IF stmt = "dmb"
              THEN sub_buf = {} /\ UNCHANGED sub_buf
              ELSE sub_buf' = sub_buf \cup
                        {[drv |-> sub_drv, req |-> sub_req[sub_drv], what |-> stmt]}
           /\ sub_pc' = sub_pc + 1
           /\ sub_drv' = IF sub_pc = Len(prog) THEN "none" ELSE sub_drv
    /\ UNCHANGED <<sub_req, visible, dev_seen>>
    /\ UNCHANGED <<coreVars, txVars, blkioVars, initVars, evVars, scanVars>>

\* A store in flight reaches the memory the device reads; stores that no
\* barrier separates land in any order.
StoreLands ==
    /\ \E s \in sub_buf :
            /\ visible' = visible \cup {s}
            /\ sub_buf' = sub_buf \ {s}
    /\ UNCHANGED <<sub_drv, sub_pc, sub_req, dev_seen>>
    /\ UNCHANGED <<coreVars, txVars, blkioVars, initVars, evVars, scanVars>>

\* The device looks at the queue and the notify register.
DeviceReads ==
    /\ dev_seen # visible
    /\ dev_seen' = visible
    /\ UNCHANGED <<sub_drv, sub_pc, sub_req, sub_buf, visible>>
    /\ UNCHANGED <<coreVars, txVars, blkioVars, initVars, evVars, scanVars>>

\* avail.idx, used.idx and last_used are uint16_t; the model keeps IdxBits
\* bits of them, enough for the largest queue.
IdxBits == 7

IdxMod == 2 ^ IdxBits

\* The queue sizes of init_virtqueue: at most 64, and 16 for a device that
\* reports none.
INPUT_QUEUE_CAP == 64

INPUT_QUEUE_DEFAULT == 16

\* init_virtqueue of input.c: the queue size from QUEUE_NUM_MAX, every
\* descriptor on the available ring, avail.idx = queue_size, last_used = 0.
init_virtqueue(num_max) ==
    LET capped == IF num_max > INPUT_QUEUE_CAP THEN INPUT_QUEUE_CAP ELSE num_max
        size   == IF capped = 0 THEN INPUT_QUEUE_DEFAULT ELSE capped
    IN  [active |-> 1, queue_size |-> size, avail_idx |-> size, last_used |-> 0,
         used_idx |-> 0, avail_ring |-> [i \in 1..size |-> i - 1],
         used_ring |-> [i \in 1..size |-> 0], dev_avail |-> 0]

\* An alternative to the refill of virtio_input_poll: the buffer goes back to
\* its ring slot and avail.idx stays.
input_refill_silent(dev, desc_idx) ==
    [dev EXCEPT !.avail_ring[(dev.avail_idx % dev.queue_size) + 1] = desc_idx,
                !.last_used = (@ + 1) % IdxMod]

\* One turn of the loop of virtio_input_poll: the used entry at last_used is
\* read, its descriptor returned to the available ring, both indices advance.
input_refill(dev, desc_idx) ==
    [dev EXCEPT !.avail_ring[(dev.avail_idx % dev.queue_size) + 1] = desc_idx,
                !.avail_idx = (@ + 1) % IdxMod,
                !.last_used = (@ + 1) % IdxMod]

RECURSIVE virtio_input_poll(_)
virtio_input_poll(dev) ==
    IF dev.last_used = dev.used_idx
    THEN dev
    ELSE virtio_input_poll(
            input_refill(dev, dev.used_ring[(dev.last_used % dev.queue_size) + 1]))

\* init_input_device reaches init_virtqueue for a device that reports
\* num_max as QUEUE_NUM_MAX.
InitInputDevice(num_max) ==
    /\ input_dev.active = 0
    /\ input_dev' = init_virtqueue(num_max)
    /\ input_last' = [op |-> "init", consumed |-> 0]
    /\ UNCHANGED <<coreVars, txVars, blkioVars, initVars, orderVars, scanVars>>

\* The device writes an event into the next buffer it was offered and
\* returns the buffer on the used ring.
InputDeviceEvent ==
    /\ input_dev.active = 1
    /\ input_dev.dev_avail # input_dev.avail_idx
    /\ LET desc == input_dev.avail_ring[(input_dev.dev_avail % input_dev.queue_size) + 1]
       IN  input_dev' =
                [input_dev EXCEPT
                    !.used_ring[(input_dev.used_idx % input_dev.queue_size) + 1] = desc,
                    !.used_idx = (@ + 1) % IdxMod,
                    !.dev_avail = (@ + 1) % IdxMod]
    /\ input_last' = [op |-> "event", consumed |-> 0]
    /\ UNCHANGED <<coreVars, txVars, blkioVars, initVars, orderVars, scanVars>>

\* virtio_input_poll for the device.
VirtioInputPoll ==
    /\ input_dev.active = 1
    /\ input_dev' = virtio_input_poll(input_dev)
    /\ input_last' = [op |-> "poll",
                      consumed |-> (input_dev.used_idx - input_dev.last_used) % IdxMod]
    /\ UNCHANGED <<coreVars, txVars, blkioVars, initVars, orderVars, scanVars>>

MaxFlushes == 3

\* send_command for each command of a list: the command is put on the queue
\* whether or not the device answers within the wait loop.
Sent(types, answers) ==
    [i \in 1..Len(types) |-> [type |-> types[i], answered |-> answers[i]]]

\* virtio_gpu_init: nothing is sent without a device; with one, the handshake
\* is followed by get_display_info, create_resource and attach_backing.
virtio_gpu_init(g, found, answers) ==
    IF ~found
    THEN [g |-> [g EXCEPT !.booted = TRUE, !.gpu_base = 0], cmds |-> <<>>]
    ELSE [g |-> [g EXCEPT !.booted = TRUE, !.gpu_base = 1, !.gpu_initialized = 1],
          cmds |-> Sent(<<"GET_DISPLAY_INFO", "RESOURCE_CREATE_2D",
                          "RESOURCE_ATTACH_BACKING">>, answers)]

\* An alternative flush that sets the scanout every time.
virtio_gpu_flush_rescan(g, answers) ==
    IF g.gpu_initialized = 0 \/ g.gpu_base = 0
    THEN [g |-> g, cmds |-> <<>>]
    ELSE [g |-> [g EXCEPT !.scanout_set = 1],
          cmds |-> Sent(<<"SET_SCANOUT", "TRANSFER_TO_HOST_2D", "RESOURCE_FLUSH">>,
                        answers)]

\* virtio_gpu_flush (use_goldfish_fb is never set).
virtio_gpu_flush(g, answers) ==
    IF g.gpu_initialized = 0 \/ g.gpu_base = 0
    THEN [g |-> g, cmds |-> <<>>]
    ELSE IF g.scanout_set = 0
    THEN [g |-> [g EXCEPT !.scanout_set = 1],
          cmds |-> Sent(<<"SET_SCANOUT", "TRANSFER_TO_HOST_2D", "RESOURCE_FLUSH">>,
                        answers)]
    ELSE [g |-> g,
          cmds |-> Sent(<<"TRANSFER_TO_HOST_2D", "RESOURCE_FLUSH">>, answers)]

\* goldfish_fb_init at boot.
VirtioGpuInit(found, answers) ==
    /\ ~gpu.booted
    /\ \E r \in {virtio_gpu_init(gpu, found, answers)} :
            /\ gpu' = r.g
            /\ gpu_cmds' = gpu_cmds \o r.cmds
    /\ UNCHANGED gpu_flushes
    /\ UNCHANGED <<coreVars, txVars, blkioVars, initVars, orderVars, evVars>>

\* goldfish_fb_flush, called by the kernel once the drivers are up.
VirtioGpuFlush(answers) ==
    /\ gpu.booted
    /\ gpu_flushes < MaxFlushes
    /\ \E r \in {virtio_gpu_flush(gpu, answers)} :
            /\ gpu' = r.g
            /\ gpu_cmds' = gpu_cmds \o r.cmds
    /\ gpu_flushes' = gpu_flushes + 1
    /\ UNCHANGED <<coreVars, txVars, blkioVars, initVars, orderVars, evVars>>

DrvInit ==
    /\ virtio_net = [detected |-> 0, available |-> 0, link_up |-> 0,
                     rx_desc |-> FALSE, tx_desc |-> FALSE, tx_buffer |-> FALSE,
                     tx_free_desc |-> 0, rx_last_used |-> 0, rx_avail_idx |-> 0]
    /\ net_device = [present |-> FALSE, rx_max |-> 0, tx_max |-> 0,
                     used_idx |-> 0, owned |-> <<>>, used |-> <<>>]
    /\ blk_driver = [initialized |-> 0, vq_num |-> 0]
    /\ blk_device = [present |-> FALSE, max_num |-> 0]
    /\ cpu_halted = FALSE
    /\ drv_booted = {}
    /\ drv_last = [op |-> "boot", ret |-> 0]
    /\ drv_calls = 0
    /\ tx_buffer_data = 0
    /\ tx_ring = <<>>
    /\ tx_wire = [meant |-> 0, sent |-> 0]
    /\ blk_req = [waiting |-> 0, header |-> 0, issued |-> 0]
    /\ blk_queue = [avail |-> 0, used_idx |-> 0, last_used |-> 0,
                    status_byte |-> 0, device_req |-> 0]
    /\ blk_completed = {}
    /\ blk_result = [req |-> 0, ret |-> 0]
    /\ dev_version = [d \in Drivers |-> 0]
    /\ mmio_log = [d \in Drivers |-> <<>>]
    /\ sub_drv = "none"
    /\ sub_pc = 1
    /\ sub_req = [d \in SubmitDrivers |-> 0]
    /\ sub_buf = {}
    /\ visible = {}
    /\ dev_seen = {}
    /\ input_dev = [active |-> 0, queue_size |-> 0, avail_idx |-> 0, last_used |-> 0,
                    used_idx |-> 0, avail_ring |-> <<>>, used_ring |-> <<>>,
                    dev_avail |-> 0]
    /\ input_last = [op |-> "boot", consumed |-> 0]
    /\ gpu = [booted |-> FALSE, gpu_base |-> 0, gpu_initialized |-> 0, scanout_set |-> 0]
    /\ gpu_cmds = <<>>
    /\ gpu_flushes = 0

vars == <<fsVars, rtVars, heapVars, ringVars, netVars, drvVars>>

Init == FsInit /\ RtIdle /\ HeapInit /\ RingInit /\ NetInit /\ DrvInit

InitRt == FsInit /\ RtInit /\ HeapInit /\ RingInit /\ NetInit /\ DrvInit

InitConfigured == FsInit /\ RtIdle /\ HeapInit /\ RingInit /\ NetConfigured /\ DrvInit

NextFs ==
    \/ FsFormat /\ UNCHANGED <<rtVars, heapVars, ringVars, netVars, drvVars>>
    \/ \E p \in Paths, fl \in OpenModes : FsOpen(p, fl) /\ UNCHANGED <<rtVars, heapVars, ringVars, netVars, drvVars>>
    \/ \E fd \in 0..(MaxOpen - 1) : FsClose(fd) /\ UNCHANGED <<rtVars, heapVars, ringVars, netVars, drvVars>>
    \/ \E fd \in 0..(MaxOpen - 1), n \in ReadLens :
            FsRead(fd, n) /\ UNCHANGED <<rtVars, heapVars, ringVars, netVars, drvVars>>
    \/ \E fd \in 0..(MaxOpen - 1), b \in Buffers :
            FsWrite(fd, b, DeviceOk) /\ UNCHANGED <<rtVars, heapVars, ringVars, netVars, drvVars>>
    \/ \E p \in Paths : FsRemove(p) /\ UNCHANGED <<rtVars, heapVars, ringVars, netVars, drvVars>>

SpecFs == Init /\ [][NextFs]_vars

\* The filesystem on a device that may answer a sector write with an error.
NextFsDev ==
    \/ FsFormat /\ UNCHANGED <<rtVars, heapVars, ringVars, netVars, drvVars>>
    \/ \E fl \in OpenModes : FsOpen(<<"a">>, fl) /\ UNCHANGED <<rtVars, heapVars, ringVars, netVars, drvVars>>
    \/ \E fd \in 0..(MaxOpen - 1) : FsClose(fd) /\ UNCHANGED <<rtVars, heapVars, ringVars, netVars, drvVars>>
    \/ \E fd \in 0..(MaxOpen - 1), b \in Buffers, dev \in DeviceFaults :
            FsWrite(fd, b, dev) /\ UNCHANGED <<rtVars, heapVars, ringVars, netVars, drvVars>>

SpecFsDev == Init /\ [][NextFsDev]_vars

NextRt ==
    \/ RtFormat /\ UNCHANGED <<heapVars, ringVars, netVars, drvVars>>
    \/ \E p \in {<<"a">>, <<"/", "b">>} : RtOpenW(p) /\ UNCHANGED <<heapVars, ringVars, netVars, drvVars>>
    \/ RtWrite /\ UNCHANGED <<heapVars, ringVars, netVars, drvVars>>
    \/ RtClose /\ UNCHANGED <<heapVars, ringVars, netVars, drvVars>>
    \/ RtOpenR /\ UNCHANGED <<heapVars, ringVars, netVars, drvVars>>
    \/ \E extra \in {0, 1} : RtRead(extra) /\ UNCHANGED <<heapVars, ringVars, netVars, drvVars>>

SpecRt == InitRt /\ [][NextRt]_vars

NextHeap ==
    \/ \E size \in MallocSizes : HeapMalloc(size) /\ UNCHANGED <<fsVars, rtVars, ringVars, netVars, drvVars>>
    \/ \E ptr \in heap_ptrs \cup WildPtrs \cup {NULL} :
            HeapFree(ptr) /\ UNCHANGED <<fsVars, rtVars, ringVars, netVars, drvVars>>

SpecHeap == Init /\ [][NextHeap]_vars

NextRing ==
    \/ PushBegin /\ UNCHANGED <<fsVars, rtVars, heapVars, netVars, drvVars>>
    \/ PushCheck /\ UNCHANGED <<fsVars, rtVars, heapVars, netVars, drvVars>>
    \/ PushWrite /\ UNCHANGED <<fsVars, rtVars, heapVars, netVars, drvVars>>
    \/ PushPublish /\ UNCHANGED <<fsVars, rtVars, heapVars, netVars, drvVars>>
    \/ PopCheck /\ UNCHANGED <<fsVars, rtVars, heapVars, netVars, drvVars>>
    \/ PopRead /\ UNCHANGED <<fsVars, rtVars, heapVars, netVars, drvVars>>
    \/ PopAdvance /\ UNCHANGED <<fsVars, rtVars, heapVars, netVars, drvVars>>

SpecRing == Init /\ [][NextRing]_vars

NextDrv ==
    \/ \E dev \in NetDevices, halt \in BOOLEAN :
            VirtioNetInit(dev, halt) /\ UNCHANGED <<fsVars, rtVars, heapVars, ringVars, netVars>>
    \/ \E len \in {60, PACKET_BUF_SIZE}, halt \in BOOLEAN :
            VirtioNetSend(len, halt) /\ UNCHANGED <<fsVars, rtVars, heapVars, ringVars, netVars>>
    \/ VirtioNetRecv /\ UNCHANGED <<fsVars, rtVars, heapVars, ringVars, netVars>>
    \/ \E len \in RxLens :
            DeviceDeliver(len) /\ UNCHANGED <<fsVars, rtVars, heapVars, ringVars, netVars>>
    \/ \E dev \in BlkDevices :
            BlkInit(dev) /\ UNCHANGED <<fsVars, rtVars, heapVars, ringVars, netVars>>
    \/ \E op \in {"read", "write"}, count \in {0, 1},
           st \in {VIRTIO_BLK_S_OK, VIRTIO_BLK_S_IOERR} :
            BlkIo(op, count, st) /\ UNCHANGED <<fsVars, rtVars, heapVars, ringVars, netVars>>

SpecDrv == Init /\ [][NextDrv]_vars

\* The boot-time handshake of the four drivers with legacy or modern devices.
NextHandshake ==
    \E d \in Drivers, version \in {1, 2} :
        DriverInitStep(d, version) /\ UNCHANGED <<fsVars, rtVars, heapVars, ringVars, netVars>>

SpecHandshake == Init /\ [][NextHandshake]_vars

\* Block requests with a disk that answers at its own pace.
NextBlkIo ==
    \/ \E dev \in BlkDevices :
            BlkInit(dev) /\ UNCHANGED <<fsVars, rtVars, heapVars, ringVars, netVars>>
    \/ BlkIoSubmit /\ UNCHANGED <<fsVars, rtVars, heapVars, ringVars, netVars>>
    \/ \E timed_out \in BOOLEAN :
            BlkIoReturn(timed_out) /\ UNCHANGED <<fsVars, rtVars, heapVars, ringVars, netVars>>
    \/ BlkDeviceFetch /\ UNCHANGED <<fsVars, rtVars, heapVars, ringVars, netVars>>
    \/ \E st \in {VIRTIO_BLK_S_OK, VIRTIO_BLK_S_IOERR} :
            BlkDeviceComplete(st) /\ UNCHANGED <<fsVars, rtVars, heapVars, ringVars, netVars>>

SpecBlkIo == Init /\ [][NextBlkIo]_vars

\* The NIC's TX queue: frames submitted by virtio_net_send and transmitted
\* by the device at its own pace.
NextTx ==
    \/ \E dev \in NetDevices, halt \in BOOLEAN :
            VirtioNetInit(dev, halt) /\ UNCHANGED <<fsVars, rtVars, heapVars, ringVars, netVars>>
    \/ \E frame \in TxFrames, halt \in BOOLEAN :
            VirtioNetSendFrame(frame, halt) /\ UNCHANGED <<fsVars, rtVars, heapVars, ringVars, netVars>>
    \/ DeviceTransmit /\ UNCHANGED <<fsVars, rtVars, heapVars, ringVars, netVars>>

SpecTx == Init /\ [][NextTx]_vars

\* Requests submitted statement by statement while the device looks on.
NextSubmit ==
    \/ \E d \in SubmitDrivers :
            SubmitBegin(d) /\ UNCHANGED <<fsVars, rtVars, heapVars, ringVars, netVars>>
    \/ SubmitStep /\ UNCHANGED <<fsVars, rtVars, heapVars, ringVars, netVars>>
    \/ StoreLands /\ UNCHANGED <<fsVars, rtVars, heapVars, ringVars, netVars>>
    \/ DeviceReads /\ UNCHANGED <<fsVars, rtVars, heapVars, ringVars, netVars>>

SpecSubmit == Init /\ [][NextSubmit]_vars

\* The event queue of an input device: init, events, polls.
NextInput ==
    \/ \E num_max \in {0, 2, 4, 128} :
            InitInputDevice(num_max) /\ UNCHANGED <<fsVars, rtVars, heapVars, ringVars, netVars>>
    \/ InputDeviceEvent /\ UNCHANGED <<fsVars, rtVars, heapVars, ringVars, netVars>>
    \/ VirtioInputPoll /\ UNCHANGED <<fsVars, rtVars, heapVars, ringVars, netVars>>

SpecInput == Init /\ [][NextInput]_vars

\* The GPU from boot on: init, then flushes; each command may go unanswered.
NextGpu ==
    \/ \E found \in BOOLEAN, answers \in [1..3 -> BOOLEAN] :
            VirtioGpuInit(found, answers) /\ UNCHANGED <<fsVars, rtVars, heapVars, ringVars, netVars>>
    \/ \E answers \in [1..3 -> BOOLEAN] :
            VirtioGpuFlush(answers) /\ UNCHANGED <<fsVars, rtVars, heapVars, ringVars, netVars>>

SpecGpu == Init /\ [][NextGpu]_vars

localVars == <<fsVars, rtVars, heapVars, ringVars, drvVars>>

\* One connection and the tick counter at its width.
NextTimed ==
    \/ TimedConnect /\ UNCHANGED localVars
    \/ TimedClose /\ UNCHANGED localVars
    \/ \E flags \in {{}, {TCP_SYN, TCP_ACK}, {TCP_ACK}, {TCP_FIN, TCP_ACK}} :
            TimedPoll(flags) /\ UNCHANGED localVars

SpecTimed == Init /\ [][NextTimed]_vars

\* One DNS query and the tick counter at its width; no response arrives.
NextTimedDns ==
    \/ TimedDnsStart /\ UNCHANGED localVars
    \/ TimedDnsLoop /\ UNCHANGED localVars

SpecTimedDns == Init /\ [][NextTimedDns]_vars

NextDhcp ==
    \/ NetPoll(NoPacket) /\ UNCHANGED localVars
    \/ \E pkt \in ArpFrom({GatewayIp}) : NetPoll(pkt) /\ UNCHANGED localVars
    \/ \E pkt \in DhcpReplies : NetPoll(pkt) /\ UNCHANGED localVars

SpecDhcp == Init /\ [][NextDhcp]_vars

NextDns ==
    \/ DnsResolveStart /\ UNCHANGED localVars
    \/ DnsResolvePoll /\ UNCHANGED localVars
    \/ NetPoll(NoPacket) /\ UNCHANGED localVars
    \/ \E pkt \in ArpFrom({GatewayIp, IP(4)}) : NetPoll(pkt) /\ UNCHANGED localVars
    \/ \E pkt \in DnsResponses({dns_query.query_id, dns_query_id_counter},
                                DnsAnswerSections) :
            NetPoll(pkt) /\ UNCHANGED localVars

SpecDns == InitConfigured /\ [][NextDns]_vars

\* Two callers resolving at the same time.
NextDnsTwo ==
    \/ DnsResolveStart /\ UNCHANGED localVars
    \/ DnsResolveStartOther /\ UNCHANGED localVars
    \/ DnsResolvePoll /\ UNCHANGED localVars
    \/ DnsResolvePollOther /\ UNCHANGED localVars
    \/ NetPoll(NoPacket) /\ UNCHANGED localVars
    \/ \E pkt \in ArpFrom({GatewayIp}) : NetPoll(pkt) /\ UNCHANGED localVars
    \/ \E pkt \in DnsResponses({dns_query.query_id, dns_other.query_id},
                                DnsAnswerSections) :
            NetPoll(pkt) /\ UNCHANGED localVars

SpecDnsTwo == InitConfigured /\ [][NextDnsTwo]_vars

\* The most bytes a peer sends in the TCP runs.
MaxTcpBytes == 4

NextTcp ==
    \/ \E iss \in IssChoices : TcpConnect(RemoteIp, 80, iss) /\ UNCHANGED localVars
    \/ \E idx \in 0..(MaxConns - 1) : TcpSend(idx, <<7>>) /\ UNCHANGED localVars
    \/ \E idx \in 0..(MaxConns - 1) : TcpRecv(idx, 1) /\ UNCHANGED localVars
    \/ \E idx \in 0..(MaxConns - 1) : TcpClose(idx) /\ UNCHANGED localVars
    \/ NetPoll(NoPacket) /\ UNCHANGED localVars
    \/ \E pkt \in ArpFrom({GatewayIp, IP(4)}) : NetPoll(pkt) /\ UNCHANGED localVars
    \/ \E i \in 0..(MaxConns - 1) :
        \E pkt \in PeerSegments(i, {{TCP_SYN, TCP_ACK}, {TCP_ACK}, {TCP_FIN, TCP_ACK},
                                     {TCP_RST}}, {}, {-1, 0}, {<<>>}) :
            NetPoll(pkt) /\ UNCHANGED localVars
    \/ \E i \in 0..(MaxConns - 1) :
        \E pkt \in PeerData(i, MaxTcpBytes, {<<7>>}) :
            NetPoll(pkt) /\ UNCHANGED localVars

SpecTcp == InitConfigured /\ [][NextTcp]_vars

\* What a URL is to http_request_start: an address, a host name, an https
\* URL, a URL without host.
HttpUrls ==
    {[ok |-> 1, is_https |-> 0, host_ip |-> RemoteIp, port |-> 80],
     [ok |-> 1, is_https |-> 0, host_ip |-> <<>>, port |-> 80],
     [ok |-> 1, is_https |-> 1, host_ip |-> <<>>, port |-> 443],
     [ok |-> 0, is_https |-> 0, host_ip |-> <<>>, port |-> 80]}

\* The longest response a server sends.
MaxResponseBytes == 5

\* Pieces of a response as the server's segments carry them.
HttpPayloads ==
    {<<StatusLine(200), ContentLengthLine(1), HEADER_END>>,
     <<StatusLine(200), HEADER_END>>,
     <<7>>}

\* The resolver's answers to the request's query: the address, or none.
HttpDnsResponses ==
    {pkt \in DnsResponses({dns_query.query_id},
                          {[ancount |-> 0, answers |-> <<>>],
                           [ancount |-> 1, answers |-> <<ARecord(RemoteIp)>>]}) :
        /\ dns_query.state = DNS_STATE_PENDING
        /\ pkt.payload.qr = 1
        /\ pkt.payload.rcode = 0}

\* The server's segments on the request's connection, in sequence, while
\* the connection exists.
HttpServerSegments ==
    {pkt \in PeerSegments(0, {{TCP_SYN, TCP_ACK}, {TCP_ACK}, {TCP_FIN, TCP_ACK},
                              {TCP_RST}}, {}, {0}, {<<>>})
            \cup PeerData(0, MaxResponseBytes, HttpPayloads) :
        connections[0].state # TCP_CLOSED}

NextHttp ==
    \/ \E url \in HttpUrls : HttpStart(url, 0) /\ UNCHANGED localVars
    \/ HttpPoll(0) /\ UNCHANGED localVars
    \/ HttpClose /\ UNCHANGED localVars
    \/ NetPoll(NoPacket) /\ UNCHANGED localVars
    \/ \E pkt \in ArpFrom({GatewayIp}) : NetPoll(pkt) /\ UNCHANGED localVars
    \/ \E pkt \in HttpDnsResponses : NetPoll(pkt) /\ UNCHANGED localVars
    \/ \E pkt \in HttpServerSegments : NetPoll(pkt) /\ UNCHANGED localVars

SpecHttp == InitConfigured /\ [][NextHttp]_vars

\* Requests to an address; the terminal's main loop polls an active request
\* on every pass.
NextHttpFair ==
    \/ HttpStart([ok |-> 1, is_https |-> 0, host_ip |-> RemoteIp, port |-> 80], 0)
            /\ UNCHANGED localVars
    \/ HttpPoll(0) /\ UNCHANGED localVars
    \/ HttpClose /\ UNCHANGED localVars
    \/ NetPoll(NoPacket) /\ UNCHANGED localVars
    \/ \E pkt \in ArpFrom({GatewayIp}) : NetPoll(pkt) /\ UNCHANGED localVars
    \/ \E pkt \in HttpServerSegments : NetPoll(pkt) /\ UNCHANGED localVars

SpecHttpFair ==
    InitConfigured /\ [][NextHttpFair]_vars /\ WF_vars(HttpPoll(0) /\ UNCHANGED localVars)

\* What a URL is to ws_connect: an address, a host name, a URL without host.
WsUrls ==
    {[ok |-> 1, host_ip |-> RemoteIp, port |-> 80],
     [ok |-> 1, host_ip |-> <<>>, port |-> 80],
     [ok |-> 0, host_ip |-> <<>>, port |-> 80]}

\* The longest stream a WebSocket server sends.
MaxWsStream == 7

\* The server's segments: the 101 response, another response, and unmasked
\* ping, close and one-byte text frames.
WsPayloads ==
    {<<StatusLine(101), HEADER_END>>,
     <<StatusLine(200), HEADER_END>>,
     <<128 + WS_OP_PING, 0>>,
     <<128 + WS_OP_CLOSE, 0>>,
     <<128 + WS_OP_TEXT, 1, 7>>}

WsServerSegments ==
    {pkt \in PeerSegments(0, {{TCP_SYN, TCP_ACK}, {TCP_ACK}, {TCP_FIN, TCP_ACK},
                              {TCP_RST}}, {}, {0}, {<<>>})
            \cup PeerData(0, MaxWsStream, WsPayloads) :
        connections[0].state # TCP_CLOSED}

WsMaskKey == <<1, 2, 3, 4>>

NextWs ==
    \/ \E url \in WsUrls : WsConnect(url, 0) /\ UNCHANGED localVars
    \/ WsPoll(WsMaskKey) /\ UNCHANGED localVars
    \/ WsClose(WsMaskKey) /\ UNCHANGED localVars
    \/ NetPoll(NoPacket) /\ UNCHANGED localVars
    \/ \E pkt \in ArpFrom({GatewayIp}) : NetPoll(pkt) /\ UNCHANGED localVars
    \/ \E pkt \in WsServerSegments : NetPoll(pkt) /\ UNCHANGED localVars

SpecWs == InitConfigured /\ [][NextWs]_vars

\* TCP calls under the kernel's main loop, which calls net_poll on every pass;
\* the gateway answers ARP requests, any other frame can be lost.
NextTcpFair ==
    \/ TcpConnect(RemoteIp, 80, 0) /\ UNCHANGED localVars
    \/ \E idx \in 0..(MaxConns - 1) : TcpSendTracked(idx, <<7>>) /\ UNCHANGED localVars
    \/ \E idx \in 0..(MaxConns - 1) : TcpClose(idx) /\ UNCHANGED localVars
    \/ NetPoll(NoPacket) /\ UNCHANGED localVars
    \/ \E pkt \in ArpFrom({GatewayIp, IP(4)}) : NetPoll(pkt) /\ UNCHANGED localVars
    \/ \E i \in 0..(MaxConns - 1) :
        \E pkt \in PeerSegments(i, {{TCP_SYN, TCP_ACK}, {TCP_ACK}, {TCP_FIN, TCP_ACK}},
                                {}, {-1, 0}, {<<>>}) :
            NetPoll(pkt) /\ UNCHANGED localVars

GatewayArpReply ==
    [kind |-> "arp", opcode |-> ARP_REPLY, sender_ip |-> GatewayIp, target_ip |-> ClientIp]

SpecTcpFair ==
    /\ InitConfigured
    /\ [][NextTcpFair]_vars
    /\ WF_vars(NetPoll(NoPacket) /\ UNCHANGED localVars)
    /\ WF_vars(NetPoll(GatewayArpReply) /\ UNCHANGED localVars)

(***************************************************************************)
(* Claims                                                                  *)
(***************************************************************************)

\* C1: once a filesystem call has returned, the FAT, the root directory and
\* the superblock on the device equal the cached copies.
C1_DiskEqualsCache ==
    fs_is_mounted =>
        /\ disk.sb = superblock
        /\ disk.fat = fat
        /\ disk.root = root_dir

\* C2: no two neighbours in the physical block list are both free.
C2_NoAdjacentFree ==
    LET l == block_list(heap, heap_head)
    IN  \A i \in 1..(Len(l) - 1) : ~(heap[l[i]].is_free /\ heap[l[i + 1]].is_free)

\* A free that merged the block with both of its neighbours.
C2_Witness ==
    /\ heap_last.op = "free"
    /\ heap_last.blocks = Len(block_list(heap, heap_head)) + 2
    /\ Len(block_list(heap, heap_head)) > 1

\* C3: with push and pop interleaved access by access, every published slot
\* holds a completely written event, every event a pop returns is one a
\* completed push wrote, and the producer never writes the slot the consumer
\* is reading.
C3_RingAccessOrder ==
    /\ \A k \in 0..(EVENT_QUEUE_SIZE - 1) :
            k < Masked(queue_head - queue_tail + EVENT_QUEUE_SIZE) =>
                \E n \in 1..MaxPushes : event_queue[Masked(queue_tail + k)] = Event(n)
    /\ \A i \in 1..Len(ring_popped) :
            \E j \in 1..Len(ring_pushed) : ring_popped[i] = Event(ring_pushed[j])
    /\ (push_pc = "write" /\ pop_pc \in {"read", "advance"}) =>
            queue_head # queue_tail

\* The producer is writing a slot while the consumer is reading another, the
\* ring having wrapped around.
C3_Witness ==
    /\ push_pc = "write" /\ push_i = 3
    /\ pop_pc = "read" /\ pop_i = 3
    /\ Len(ring_pushed) > EVENT_QUEUE_SIZE

C7_DnsResponse ==
    \A pkt \in DnsResponses({dns_query.query_id}, DnsAnswerSections) :
        LET dns == pkt.payload
            after == net_poll(NetState, pkt).dns_query
            addresses == {i \in 1..Len(dns.answers) :
                            dns.answers[i].atype = 1 /\ dns.answers[i].rdlen = 4}
        IN  (/\ active_dns_query /\ dns_query.state = DNS_STATE_PENDING
             /\ dns.qr = 1 /\ dns.ancount = Len(dns.answers)
             /\ \A i \in 1..Len(dns.answers) :
                    Len(dns.answers[i].rdata) = dns.answers[i].rdlen)
                => IF dns.rcode = 0 /\ addresses # {}
                   THEN /\ after.state = DNS_STATE_DONE
                        /\ \E i \in addresses : after.result_ip = dns.answers[i].rdata
                   ELSE after.state = DNS_STATE_ERROR

\* C4: a connection leaves CLOSED for SYN_SENT only; every SYN sent for it
\* carries its initial sequence number iss; in SYN_SENT it becomes
\* ESTABLISHED exactly when a SYN|ACK with ack = iss + 1 arrives, ack_num
\* then being the segment's seq + 1 and an ACK with sequence number iss + 1
\* and that ack_num being sent.
C4_Handshake ==
    /\ [](\A k \in 1..Len(net_tx) :
            (net_tx[k].kind = "tcp" /\ TCP_SYN \in net_tx[k].flags) =>
                \E i \in 0..(MaxConns - 1) :
                    /\ connections[i].state = TCP_SYN_SENT
                    /\ connections[i].local_port = net_tx[k].src_port
                    /\ net_tx[k].seq = tcp_iss[i])
    /\ [](\A i \in 0..(MaxConns - 1) :
          \A seg \in PeerSegments(i, {{TCP_SYN, TCP_ACK}, {TCP_ACK}, {TCP_FIN, TCP_ACK},
                                       {TCP_RST}}, {}, {-1, 0}, {<<>>}) :
            LET after == net_poll(NetState, seg)
                next_iss == (tcp_iss[i] + 1) % SeqMod
            IN  connections[i].state = TCP_SYN_SENT =>
                    /\ after.connections[i].state = TCP_ESTABLISHED
                            <=> (seg.flags = {TCP_SYN, TCP_ACK} /\ seg.ack = next_iss)
                    /\ after.connections[i].state = TCP_ESTABLISHED =>
                            /\ after.connections[i].ack_num = (seg.seq + 1) % SeqMod
                            /\ \E k \in 1..Len(after.tx) :
                                    /\ after.tx[k].kind = "tcp"
                                    /\ after.tx[k].flags = {TCP_ACK}
                                    /\ after.tx[k].src_port = connections[i].local_port
                                    /\ after.tx[k].seq = next_iss
                                    /\ after.tx[k].ack = after.connections[i].ack_num)
    /\ [][\A i \in 0..(MaxConns - 1) :
            /\ (connections[i].state = TCP_CLOSED /\ connections'[i].state # TCP_CLOSED)
                    => connections'[i].state = TCP_SYN_SENT
            /\ (connections[i].state # TCP_ESTABLISHED
                        /\ connections'[i].state = TCP_ESTABLISHED)
                    => connections[i].state = TCP_SYN_SENT]_vars

C9_StateChain ==
    [][LET s == http_req.state
           t == http_req'.state
       IN  s # t =>
            \/ http_active = 0
                    /\ t \in {HTTP_STATE_DNS, HTTP_STATE_CONNECTING, HTTP_STATE_ERROR}
            \/ s = HTTP_STATE_DNS /\ t = HTTP_STATE_CONNECTING
            \/ s = HTTP_STATE_CONNECTING /\ t = HTTP_STATE_HEADERS
            \/ s = HTTP_STATE_HEADERS /\ t = HTTP_STATE_BODY
            \/ s = HTTP_STATE_HEADERS /\ t = HTTP_STATE_DONE
                    /\ http_req'.header_complete = 1
            \/ s = HTTP_STATE_BODY /\ t = HTTP_STATE_DONE
            \/ s \notin {HTTP_STATE_DONE, HTTP_STATE_ERROR} /\ t = HTTP_STATE_ERROR
            \/ t = HTTP_STATE_IDLE /\ http_active' = 0]_vars

\* Whether the bytes hold a complete close frame behind any number of
\* complete frames (lengths below 126).
RECURSIVE HasCloseFrame(_)
HasCloseFrame(bytes) ==
    IF Len(bytes) < 2 THEN FALSE
    ELSE LET size == 2 + (IF bytes[2] >= 128 THEN 4 ELSE 0) + (bytes[2] % 128)
         IN  IF Len(bytes) < size THEN FALSE
             ELSE IF bytes[1] % 16 = WS_OP_CLOSE THEN TRUE
             ELSE HasCloseFrame(SubSeq(bytes, size + 1, Len(bytes)))

\* C10: whenever a poll of an open handle takes bytes from TCP that hold a
\* complete close frame, the poll sends a close frame to the peer and leaves
\* the handle CLOSED (the connection being ESTABLISHED and the gateway's
\* address in the ARP cache, so that segments can be sent).
C10_CloseFrame ==
    LET r == ws_poll(NetState, ws_conn, WsMaskKey)
    IN  (/\ ws_active = 1
         /\ ws_conn.state = WS_STATE_OPEN
         /\ net_arp_lookup(NetState, config.gateway)
         /\ tcp_get_state(NetState, ws_conn.tcp_conn) = TCP_ESTABLISHED
         /\ HasCloseFrame(r.frames))
            => /\ r.ws.state = WS_STATE_CLOSED
               /\ \E k \in 1..Len(r.net.tx) :
                    /\ r.net.tx[k].kind = "tcp"
                    /\ r.net.tx[k].data # <<>>
                    /\ r.net.tx[k].data[1] = 128 + WS_OP_CLOSE

\* C11: whenever a poll of a connecting handle that has sent its upgrade
\* request takes a complete response that is not the 101 response, it does
\* not leave the handle connecting.
C11_BadUpgrade ==
    LET taken == tcp_recv(NetState, ws_conn.tcp_conn, WsHandshakeRecvMax).buffer
        r == ws_poll(NetState, ws_conn, WsMaskKey)
    IN  (/\ ws_active = 1
         /\ ws_conn.state = WS_STATE_CONNECTING
         /\ ws_conn.handshake_sent = 1
         /\ tcp_get_state(NetState, ws_conn.tcp_conn) # TCP_CLOSED
         /\ tcp_data_available(NetState, ws_conn.tcp_conn) # 0
         /\ taken # <<>>
         /\ taken[1] # StatusLine(101)
         /\ \E i \in 1..Len(taken) : taken[i] = HEADER_END)
            => r.ws.state # WS_STATE_CONNECTING

\* The clusters of the chain that starts at `start`, as free_cluster_chain
\* walks it (at most n links).
RECURSIVE ChainOf(_, _, _)
ChainOf(f, start, n) ==
    IF n = 0 \/ start = FAT_EOF \/ start = FAT_FREE \/ start >= FatEntries
    THEN {}
    ELSE {start} \cup ChainOf(f, f[start], n - 1)

\* The step is a successful fs_open with FS_O_TRUNC of an existing file that
\* another descriptor already has open.
TruncOpenShared(idx) ==
    /\ fs_calls' = fs_calls + 1
    /\ fs_op'.op = "open"
    /\ FS_O_TRUNC \in fs_op'.flags
    /\ fs_ret' >= 0
    /\ idx = find_file(FsState, strip_slash(fs_op'.path))
    /\ \E i \in 0..(MaxOpen - 1) :
           open_files[i].in_use /\ open_files[i].dirent_idx = idx

\* What fs_read returns through a descriptor opened for reading on the file
\* of directory entry idx, once descriptor `fd` has been closed to make room.
ReadAfterReopen(m, fd, idx, len) ==
    LET m1 == fs_close(m, fd).m
        o == fs_open(m1, m.root[idx].name, {FS_O_READ})
    IN  IF o.ret < 0 THEN -1 ELSE fs_read(o.m, o.ret, len).ret

\* C12: opening a file with FS_O_TRUNC while another descriptor on the same
\* file is open truncates it: the directory entry has size 0 and no chain,
\* every cluster of the old chain is free, and a read through a descriptor
\* opened afterwards returns 0 bytes.
C12_TruncShared ==
    [][\A idx \in 0..(MaxFiles - 1) :
          TruncOpenShared(idx) =>
              /\ root_dir'[idx].size = 0
              /\ root_dir'[idx].first_cluster = FAT_EOF
              /\ \A c \in ChainOf(fat, root_dir[idx].first_cluster, FatEntries) :
                     fat'[c] = FAT_FREE
              /\ \A len \in ReadLens :
                     ReadAfterReopen(FsState', fs_ret', idx, len) = 0]_vars

\* The names fs_readdir reports for the whole root directory.
Listed(m) ==
    LET d == fs_readdir(m, MaxFiles)
    IN  {d.entries[k].name : k \in 1..d.ret}

ShortWrite ==
    /\ fs_calls' = fs_calls + 1
    /\ fs_op'.op = "write"
    /\ open_files[fs_op'.fd].in_use
    /\ FS_O_WRITE \in open_files[fs_op'.fd].flags
    /\ fs_ret' < Len(fs_op'.buf)

\* alloc_cluster finds no free cluster in this FAT.
NoFreeCluster(f) ==
    \A i \in 1..(superblock.total_clusters - 1) : f[i] # FAT_FREE

\* C14 as stated: fs_write returns less than the requested length only when
\* a cluster allocation failed.
C14_ShortOnlyOnAllocFailure ==
    [][ShortWrite => NoFreeCluster(fat')]_vars

\* C14: fs_write returns less than the requested length only when a cluster
\* allocation failed or the block device answered a sector write with an
\* error.
C14_ShortOnAllocOrDeviceFailure ==
    [][ShortWrite => (NoFreeCluster(fat') \/ fs_op'.io_error)]_vars

\* A write stopped by the device after its first sector: a short count while
\* free clusters remain.
C14_Witness ==
    /\ fs_op.op = "write"
    /\ fs_op.io_error
    /\ fs_ret > 0
    /\ fs_ret < Len(fs_op.buf)
    /\ \E i \in 1..(superblock.total_clusters - 1) : fat[i] = FAT_FREE

\* A write cut short by a full volume.
C14_AllocFailureSeen ==
    /\ fs_op.op = "write"
    /\ ~fs_op.io_error
    /\ fs_ret > 0
    /\ fs_ret < Len(fs_op.buf)

\* The step is an fs_write through descriptor fd that wrote at least one byte
\* and ended past the size the directory records for the file.
WritePastEnd(fd) ==
    /\ fs_calls' = fs_calls + 1
    /\ fs_op'.op = "write"
    /\ fs_op'.fd = fd
    /\ open_files[fd].in_use
    /\ fs_ret' > 0
    /\ open_files[fd].pos + fs_ret' > root_dir[open_files[fd].dirent_idx].size

\* C15: a write at position pos that ends past the current end of the file
\* sets the file size to pos + (bytes written), and fs_seek(fd, 0, END) on
\* that descriptor then returns that size.
C15_WriteExtends ==
    [][\A fd \in 0..(MaxOpen - 1) :
          WritePastEnd(fd) =>
              LET end == open_files[fd].pos + fs_ret'
              IN  /\ root_dir'[open_files[fd].dirent_idx].size = end
                  /\ fs_size(FsState', fd) = end
                  /\ fs_seek(FsState', fd, 0, FS_SEEK_END).ret = end]_vars

\* Number of events the ring holds.
RingCount == Masked(queue_head - queue_tail + EVENT_QUEUE_SIZE)

\* C16: event_push fails exactly when the ring already holds
\* EVENT_QUEUE_SIZE - 1 events (255 of the 256 slots in the source), and a
\* failed push leaves head, tail and the slots unchanged.
C16_PushFailsWhenFull ==
    [][(push_pc = "check" /\ push_pc' # "check") =>
          /\ (push_pc' = "idle" /\ ring_ret'.push = -1)
                <=> (RingCount = EVENT_QUEUE_SIZE - 1)
          /\ push_pc' = "idle" =>
                /\ queue_head' = queue_head
                /\ queue_tail' = queue_tail
                /\ event_queue' = event_queue]_vars

\* A push has just been refused by a ring holding EVENT_QUEUE_SIZE - 1 events.
C16_Witness ==
    /\ push_pc = "idle"
    /\ ring_ret.push = -1
    /\ RingCount = EVENT_QUEUE_SIZE - 1
    /\ Len(ring_pushed) = EVENT_QUEUE_SIZE - 1
    /\ ring_calls = EVENT_QUEUE_SIZE

\* C17: after any interleaving of pushes and pops, the events popped are, in
\* order, the events whose push succeeded, each equal in every field to the
\* event that was pushed.
C17_FifoOrder ==
    /\ Len(ring_popped) <= Len(ring_pushed)
    /\ \A i \in 1..Len(ring_popped) : ring_popped[i] = Event(ring_pushed[i])

\* More events than the ring has slots have been popped, one push having
\* been refused in between.
C17_Witness ==
    /\ Len(ring_popped) > EVENT_QUEUE_SIZE
    /\ Len(ring_pushed) < ring_calls
    /\ pop_pc = "idle"

\* The step is a free(ptr) of a non-null pointer whose header is marked free
\* or does not carry BLOCK_MAGIC.
FreeOfFreeOrBadMagic ==
    /\ heap_calls' = heap_calls + 1
    /\ heap_last'.op = "free"
    /\ heap_last'.arg # NULL
    /\ LET hdr == header_at(heap, heap_last'.arg - HEADER_SIZE)
       IN  hdr.magic # BLOCK_MAGIC \/ hdr.is_free

\* C18: free(p) on a block that is already free, and free of a pointer whose
\* header magic is not BLOCK_MAGIC, change nothing: every header in the heap,
\* and with it the block list (sizes, links, free flags), is as before.
C18_FreeNoOp ==
    [][FreeOfFreeOrBadMagic =>
          /\ heap' = heap
          /\ heap_head' = heap_head
          /\ block_list(heap', heap_head') = block_list(heap, heap_head)]_vars

\* A second free of a pointer whose block has been merged into its
\* predecessor and is no longer in the list.
C18_Witness ==
    /\ heap_last.op = "free"
    /\ heap_last.arg \in heap_ptrs
    /\ heap[heap_last.arg - HEADER_SIZE].is_free
    /\ \A i \in 1..Len(block_list(heap, heap_head)) :
           block_list(heap, heap_head)[i] # heap_last.arg - HEADER_SIZE
    /\ heap_last.blocks = Len(block_list(heap, heap_head))

\* A free of a pointer with payload bytes where the header would be.
C18_BadMagicSeen ==
    /\ heap_last.op = "free"
    /\ heap_last.arg # NULL
    /\ header_at(heap, heap_last.arg - HEADER_SIZE).magic # BLOCK_MAGIC

\* virtio_net_init has run and found no device or could not set up a queue.
NetInitFailed ==
    /\ "net" \in drv_booted
    /\ \/ ~net_device.present
       \/ ~init_queue_at(net_device.rx_max)
       \/ ~init_queue_at(net_device.tx_max)

\* blk_init has run and found no device.
BlkInitFailed == "blk" \in drv_booted /\ ~blk_device.present

\* C19: when a driver's initialisation has failed (no device, or a virtqueue
\* that cannot be set up), the device stays marked inactive, send, receive,
\* read and write calls on it are rejected, and the rest of the system keeps
\* running.
C19_FailedInitInactive ==
    /\ NetInitFailed =>
          /\ virtio_net.available = 0
          /\ ~cpu_halted
          /\ drv_last.op = "send" => drv_last.ret = -1
          /\ drv_last.op = "recv" => drv_last.ret = 0
    /\ BlkInitFailed =>
          /\ blk_driver.initialized = 0
          /\ drv_last.op \in {"read", "write"} => drv_last.ret = -1

\* The sectors of cluster c.
ClusterSectors(c) ==
    cluster_to_sector(c)..(cluster_to_sector(c) + FS_SECTORS_PER_CLUSTER - 1)

\* C20: cluster 0 stays reserved after format: no file and no descriptor has
\* it as first cluster, its FAT entry is neither free nor a link to another
\* cluster, and no file data is written into its sectors.
C20_ClusterZeroReserved ==
    fs_is_mounted =>
        /\ \A i \in 0..(MaxFiles - 1) :
               root_dir[i].name # NoName => root_dir[i].first_cluster # 0
        /\ \A fd \in 0..(MaxOpen - 1) :
               open_files[fd].in_use => open_files[fd].first_cluster # 0
        /\ fat[0] = FAT_EOF
        /\ DOMAIN disk.data \cap ClusterSectors(0) = {}


\* C21: every SYN that tcp_poll retransmits for a connection carries the same
\* sequence number as the first SYN the connection put on the wire.
C21_SynRetransmitSameSeq ==
    [][\A i \in 0..(MaxConns - 1) :
          (/\ connections[i].state = TCP_SYN_SENT
           /\ first_syn[i] >= 0
           /\ connections'[i].state = TCP_SYN_SENT
           /\ connections'[i].retries > connections[i].retries)
          => SynOnWire(net_tx', connections[i].local_port) \in {-1, first_syn[i]}]_vars


\* C22: a segment that tcp_send handed over while the ARP cache had no entry
\* for the gateway, and that was dropped for it, is sent later: a frame with
\* the payload leaves from the connection's port.
C22_DroppedSegmentResent ==
    \A i \in 0..(MaxConns - 1) :
        tcp_dropped[i] ~> DataOnWire(net_tx, connections[i].local_port)

\* C22: the first half of the statement. A call that finds no ARP entry for
\* the gateway puts no TCP frame on the wire, only ARP requests for the gateway.
C22_MissSendsArpRequest ==
    [][~net_arp_lookup(NetState, config.gateway)
        => \A k \in 1..Len(net_tx') :
              \/ net_tx'[k].kind # "tcp"
              \/ net_arp_lookup(NetState', config.gateway)]_vars


\* The receive queue of a NIC that virtio_net_init has set up.
RxQueueActive == virtio_net.available = 1 /\ virtio_net.rx_desc

\* C23: every RX descriptor that virtio_net_recv has consumed from the used
\* ring is back on the available ring when it returns, so all QUEUE_SIZE
\* receive buffers are either with the device or waiting in the used ring.
C23_RxDescriptorsReturned ==
    RxQueueActive =>
        /\ virtio_net.rx_avail_idx = QUEUE_SIZE + virtio_net.rx_last_used
        /\ Len(net_device.owned) + Len(net_device.used) = QUEUE_SIZE

\* C23: the same for the packets that carry a frame.
C23_FramesReturnDescriptor ==
    [][(drv_last'.op = "recv" /\ drv_last'.ret > 0)
        => /\ virtio_net'.rx_avail_idx = virtio_net.rx_avail_idx + 1
           /\ Len(net_device'.owned) = Len(net_device.owned) + 1]_vars


\* The payload bytes connection i took from its peer in this step while
\* ESTABLISHED: the bytes over which tcp_handle_packet advances ack_num.
AckedNow(i) ==
    IF connections[i].state = TCP_ESTABLISHED /\ connections'[i].state # TCP_CLOSED
    THEN peer_sent'[i] - peer_sent[i] ELSE 0

\* C24: a connection acknowledges no payload byte it has not stored. Whenever
\* ack_num is advanced over received data, all of those bytes have been
\* appended to the receive buffer, where tcp_recv finds them.
C24_AckedBytesStored ==
    [][\A i \in 0..(MaxConns - 1) :
          AckedNow(i) > 0 =>
            /\ Len(connections'[i].rx_buffer) = Len(connections[i].rx_buffer) + AckedNow(i)
            /\ \A n \in 1..TcpRxBufSize :
                  Len(tcp_recv(NetState', i, n).buffer)
                      = Min(n, Len(connections[i].rx_buffer) + AckedNow(i))]_vars


\* Closing has begun for connection i: tcp_close has sent the FIN, or the
\* peer's FIN has been received.
Closing(i) ==
    connections[i].state \in {TCP_FIN_WAIT_1, TCP_FIN_WAIT_2, TCP_TIME_WAIT,
                              TCP_CLOSE_WAIT, TCP_LAST_ACK}

\* C25: a connection whose closing has begun returns to CLOSED under repeated
\* tcp_poll, whatever the peer still sends or does not send.
C25_ClosingReachesClosed ==
    \A i \in 0..(MaxConns - 1) : Closing(i) ~> connections[i].state = TCP_CLOSED

\* C25: the half of the statement that begins with tcp_close.
C25_LocalCloseReachesClosed ==
    \A i \in 0..(MaxConns - 1) :
        connections[i].state \in {TCP_FIN_WAIT_1, TCP_FIN_WAIT_2, TCP_TIME_WAIT}
            ~> connections[i].state = TCP_CLOSED


\* This step is the poll in which the request becomes done because its TCP
\* connection is closed.
DoneOnClose ==
    /\ http_active = 1
    /\ http_req.state \in {HTTP_STATE_HEADERS, HTTP_STATE_BODY}
    /\ http_req'.state = HTTP_STATE_DONE
    /\ tcp_get_state(NetState, http_req.tcp_conn) \in {TCP_CLOSED, TCP_CLOSE_WAIT}

\* C26: when a request becomes done because the TCP connection closed, no
\* received byte is left unread in the connection's receive buffer, unless the
\* response body is filled to its capacity.
C26_DoneLeavesNothingUnread ==
    [][DoneOnClose =>
        \/ connections'[http_req.tcp_conn].rx_buffer = <<>>
        \/ Len(http_req'.body) >= HttpMaxBody - 1]_vars


\* The responses that answer a query with the address record it asked for.
ValidAnswers(id) ==
    {pkt \in DnsResponses({id}, {[ancount |-> 1, answers |-> <<ARecord(RemoteIp)>>]}) :
        pkt.payload.qr = 1 /\ pkt.payload.rcode = 0}

\* C27: a pending query becomes done when a valid response carrying its id
\* arrives, whether it is the query started last or one that another query
\* was started after.
C27_PendingQueryAnswered ==
    /\ \A pkt \in ValidAnswers(dns_query.query_id) :
          (active_dns_query /\ dns_query.state = DNS_STATE_PENDING)
              => net_poll(NetState, pkt).dns_query.state = DNS_STATE_DONE
    /\ \A pkt \in ValidAnswers(dns_other.query_id) :
          dns_other.state = DNS_STATE_PENDING
              => net_poll(NetState, pkt).dns_other.state = DNS_STATE_DONE

\* C27: the same for the query started last alone.
C27_LastQueryAnswered ==
    \A pkt \in ValidAnswers(dns_query.query_id) :
        (active_dns_query /\ dns_query.state = DNS_STATE_PENDING)
            => net_poll(NetState, pkt).dns_query.state = DNS_STATE_DONE


\* The addresses the stack has stored.
StoredAddresses(c) == <<c.ip, c.subnet, c.gateway, c.dns>>

\* An Offer or Ack that the current DHCP state has no use for.
IgnoredForState(pkt) ==
    \/ pkt.payload.msg_type = DHCP_OFFER /\ config.dhcp_state # DHCP_DISCOVERING
    \/ pkt.payload.msg_type = DHCP_ACK /\ config.dhcp_state # DHCP_REQUESTING

\* C28: once the stack is configured no DHCP message changes the stored ip,
\* subnet, gateway or dns, and an Offer or Ack that is ignored because of the
\* DHCP state changes none of them: in every state, for every DHCP reply that
\* net_poll may be handed.
C28_DhcpFrame ==
    \A pkt \in DhcpReplies :
        (config.configured = 1 \/ IgnoredForState(pkt))
            => StoredAddresses(net_poll(NetState, pkt).config) = StoredAddresses(config)

\* C28: the same for the ip address alone.
C28_IpKept ==
    \A pkt \in DhcpReplies :
        (config.configured = 1 \/ IgnoredForState(pkt))
            => net_poll(NetState, pkt).config.ip = config.ip


\* The directory entries whose cluster chain holds cluster c.
ChainOwners(c) ==
    {i \in 0..(MaxFiles - 1) :
        /\ root_dir[i].name # NoName
        /\ c \in ChainOf(fat, root_dir[i].first_cluster, FatEntries)}

\* C29: every FAT entry other than cluster 0 that is not FREE lies on the
\* cluster chain of exactly one directory entry: no cluster is leaked and no
\* cluster is shared by two files.
C29_ClustersOwnedOnce ==
    \A c \in 1..(FatEntries - 1) :
        fat[c] # FAT_FREE => Cardinality(ChainOwners(c)) = 1

\* C29: the half that says no cluster is shared by two files.
C29_NoSharedCluster ==
    \A c \in 1..(FatEntries - 1) : Cardinality(ChainOwners(c)) <= 1


\* The handle holds a received text or binary message that has not been
\* picked up.
MessageWaiting ==
    /\ ws_active = 1
    /\ ws_conn.rx_ready = 1
    /\ ws_conn.rx_opcode \in {WS_OP_TEXT, WS_OP_BINARY}

\* C30: a received text or binary message stays available until the caller
\* picks it up: whatever frames are polled in between, rx_ready stays set, the
\* opcode is kept and ws_get_message still returns the same payload.
C30_MessageKept ==
    [][(MessageWaiting /\ ws_active' = 1) =>
          /\ ws_conn'.rx_ready = 1
          /\ ws_conn'.rx_opcode = ws_conn.rx_opcode
          /\ ws_get_message(ws_conn', WsMaxMessage).buffer
                = ws_get_message(ws_conn, WsMaxMessage).buffer]_vars


\* The opcode of the last complete frame in a stream of frame bytes (lengths
\* below 126), `cur` if it holds none.
RECURSIVE LastOpcode(_, _)
LastOpcode(bytes, cur) ==
    IF Len(bytes) < 2 THEN cur
    ELSE LET size == 2 + (IF bytes[2] >= 128 THEN 4 ELSE 0) + (bytes[2] % 128)
         IN  IF Len(bytes) < size THEN cur
             ELSE LastOpcode(SubSeq(bytes, size + 1, Len(bytes)), bytes[1] % 16)

\* What is left of a stream of frame bytes after its complete frames.
RECURSIVE Leftover(_)
Leftover(bytes) ==
    IF Len(bytes) < 2 THEN bytes
    ELSE LET size == 2 + (IF bytes[2] >= 128 THEN 4 ELSE 0) + (bytes[2] % 128)
         IN  IF Len(bytes) < size THEN bytes
             ELSE Leftover(SubSeq(bytes, size + 1, Len(bytes)))

\* C31: every complete frame in the bytes taken from TCP is processed once and
\* in order, however the reads divide the stream: the opcode the handle
\* holds is that of the last complete frame of the stream taken so far.
C31_EveryFrameProcessed ==
    ws_active = 1 => ws_conn.rx_opcode = LastOpcode(ws_stream, 0)

\* C31: the same while each read has returned exactly one whole frame.
C31_OneFramePerRead ==
    [][(/\ ws_active = 1 /\ ws_active' = 1
        /\ ws_conn.rx_opcode = LastOpcode(ws_stream, 0)
        /\ Leftover(ws_stream) = <<>>
        /\ Len(ws_stream') > Len(ws_stream)
        /\ LET taken == SubSeq(ws_stream', Len(ws_stream) + 1, Len(ws_stream'))
           IN  /\ Len(taken) >= 2
               /\ Len(taken) = 2 + (IF taken[2] >= 128 THEN 4 ELSE 0) + (taken[2] % 128))
        => ws_conn'.rx_opcode = LastOpcode(ws_stream', 0)]_vars


\* C32: the TX buffer is not written while a published TX descriptor that
\* points at it has not been returned by the device.
C32_TxBufferNotOverwritten ==
    [][tx_ring # <<>> => tx_buffer_data' = tx_buffer_data]_vars

\* C32: what the device transmits for a descriptor is the frame that was
\* submitted with it.
C32_TransmitsSubmittedFrame ==
    tx_wire.sent = tx_wire.meant

\* C32: a send made while no TX descriptor is outstanding is transmitted as
\* submitted.
C32_LoneSendIntact ==
    [][(Len(tx_ring) = 1 /\ tx_ring' = <<>>) => tx_wire'.sent = tx_wire'.meant]_vars


\* C33: do_blk_io returns success only if the device has completed that same
\* request with status OK.
C33_SuccessIsOwnCompletion ==
    blk_result.ret = 0 /\ blk_result.req # 0
        => [req |-> blk_result.req, status |-> VIRTIO_BLK_S_OK] \in blk_completed

\* C33: when the device has nothing left to work on (every published entry
\* was fetched and completed), success is the completion of the current
\* request.
C33_SuccessOnQuietDevice ==
    [][(/\ blk_req.waiting # 0 /\ blk_req'.waiting = 0
        /\ blk_queue.avail = 0 /\ blk_queue.device_req = 0
        /\ blk_result'.ret = 0)
       => [req |-> blk_req.waiting, status |-> VIRTIO_BLK_S_OK] \in blk_completed]_vars

\* The polls during which no segment reaches the stack: net_poll without a
\* frame or with an ARP frame.
QuietPolls == {NoPacket} \cup ArpFrom({GatewayIp, IP(4)})

\* The number of SYN segments from local port `port` among the frames tx.
SynCount(tx, port) ==
    Cardinality({k \in 1..Len(tx) : /\ tx[k].kind = "tcp"
                                    /\ tx[k].flags = {TCP_SYN}
                                    /\ tx[k].src_port = port})

\* C34: the retransmissions counted.  A connection in SYN_SENT has
\* retransmitted at most MaxSynRetries times (5 in the source).  A poll that brings no segment leaves it alone
\* while its deadline has not expired; on expiry it counts one retry and
\* retransmits at most one SYN, until the retries are used up: the next
\* expiry moves the connection to CLOSED without a SYN.
C34_SynRetriesBounded ==
    \A i \in 0..(MaxConns - 1) : \A pkt \in QuietPolls :
        LET conn == connections[i]
            after == net_poll(NetState, pkt)
            then == after.connections[i]
            syns == SynCount(after.tx, conn.local_port)
        IN  conn.state = TCP_SYN_SENT =>
                /\ conn.retries <= MaxSynRetries
                /\ IF conn.timeout > 0
                   THEN then.state = TCP_SYN_SENT /\ then.retries = conn.retries /\ syns = 0
                   ELSE IF conn.retries < MaxSynRetries
                   THEN /\ then.state = TCP_SYN_SENT
                        /\ then.retries = conn.retries + 1
                        /\ syns <= 1
                        /\ net_arp_lookup(after, config.gateway) => syns = 1
                   ELSE then.state = TCP_CLOSED /\ syns = 0



\* C35: a connection in FIN_WAIT_1, FIN_WAIT_2 or TIME_WAIT is CLOSED after
\* a bounded number of tcp_poll calls, whatever the peer sends or does not
\* send: the FIN_WAIT deadline and the TIME_WAIT deadline, each expiring on
\* the poll after its last tick.
C35_ClosingBounded ==
    Phase(timed_conn.state) = "closing" => phase_polls <= FinTicks + TimeWaitTicks + 2

\* C34: a connection in SYN_SENT leaves it after at most MaxSynRetries + 1
\* deadlines: it is moved to CLOSED unless a SYN|ACK arrives first.
C34_SynSentBounded ==
    timed_conn.state = TCP_SYN_SENT => phase_polls <= (MaxSynRetries + 1) * (SynTicks + 1)

\* C36: a query that is polled after every net_poll and gets no response is
\* error by the poll that follows the tick after its timeout: it is pending
\* for at most DnsTimeoutTicks ticks after dns_resolve_start.
C36_ErrorAfterTimeout ==
    timed_query.state = DNS_STATE_PENDING => query_polls <= DnsTimeoutTicks

\* C36: the same with the query becoming error in the tick in which the
\* counter reaches the timeout.
C36_ErrorAtTimeout ==
    timed_query.state = DNS_STATE_PENDING => query_polls < DnsTimeoutTicks

\* C36: with the deadlines kept as ticks left, a poll makes the query error
\* when the timeout has passed, and otherwise resends it when the retry
\* deadline has passed and leaves it pending.
C36_PollByDeadlines ==
    LET r == dns_resolve_poll(NetState)
    IN  dns_query.state = DNS_STATE_PENDING =>
            IF dns_query.timeout < 0
            THEN r.ret = DNS_STATE_ERROR /\ r.net.tx = <<>>
            ELSE /\ r.ret = DNS_STATE_PENDING
                 /\ dns_query.retry < 0 =>
                        /\ r.net.dns_query.retry = DnsRetryTicks
                        /\ net_arp_lookup(NetState, config.gateway) => Len(r.net.tx) = 1


\* The step of the handshake a register write belongs to ("" for a write
\* that is none of the named steps).
StepOf(w) ==
    IF w.reg = "STATUS"
    THEN (IF w.val = 0 THEN "reset"
          ELSE IF w.val = VIRTIO_STATUS_ACK THEN "ACK"
          ELSE IF w.val = VIRTIO_STATUS_ACK + VIRTIO_STATUS_DRIVER THEN "DRIVER"
          ELSE IF (w.val \div VIRTIO_STATUS_DRIVER_OK) % 2 = 1 THEN "DRIVER_OK"
          ELSE IF (w.val \div VIRTIO_STATUS_FEATURES_OK) % 2 = 1 THEN "FEATURES_OK"
          ELSE "")
    ELSE IF w.reg \in {"DEV_FEAT_SEL", "DRV_FEAT_SEL", "DRV_FEAT"} THEN "features"
    ELSE IF w.reg \in {"QUEUE_SEL", "QUEUE_NUM", "QUEUE_ALIGN", "QUEUE_PFN", "QUEUE_DESC",
                       "QUEUE_AVAIL", "QUEUE_USED", "QUEUE_READY"} THEN "queue setup"
    ELSE ""

\* The steps of a write log in order, each run of writes of one step once.
RECURSIVE StepsOf(_, _)
StepsOf(log, last) ==
    IF log = <<>> THEN <<>>
    ELSE LET step == StepOf(Head(log))
         IN  IF step = "" THEN StepsOf(Tail(log), last)
             ELSE IF step = last THEN StepsOf(Tail(log), last)
             ELSE <<step>> \o StepsOf(Tail(log), step)

IsPrefix(a, b) == Len(a) <= Len(b) /\ a = SubSeq(b, 1, Len(a))

\* The order of the statement, and the order with the features first.
QueueFirst(version) ==
    <<"reset", "ACK", "DRIVER", "queue setup", "features">>
        \o (IF version = 1 THEN <<>> ELSE <<"FEATURES_OK">>) \o <<"DRIVER_OK">>

FeaturesFirst(version) ==
    <<"reset", "ACK", "DRIVER", "features", "queue setup">>
        \o (IF version = 1 THEN <<>> ELSE <<"FEATURES_OK">>) \o <<"DRIVER_OK">>

\* C37 as stated: every driver goes through reset, ACK, DRIVER, queue setup,
\* feature negotiation, FEATURES_OK (modern devices only), DRIVER_OK in this
\* order.
C37_QueueSetupThenFeatures ==
    \A d \in Drivers :
        dev_version[d] # 0 => IsPrefix(StepsOf(mmio_log[d], ""), QueueFirst(dev_version[d]))

\* C37 amended: every driver goes through reset, ACK, DRIVER, feature
\* negotiation, queue setup, FEATURES_OK (modern devices only), DRIVER_OK in
\* this order, and through all of them when its init function has returned.
C37_FeaturesThenQueueSetup ==
    \A d \in Drivers :
        dev_version[d] # 0 =>
            /\ IsPrefix(StepsOf(mmio_log[d], ""), FeaturesFirst(dev_version[d]))
            /\ mmio_log[d] = InitWrites(d, dev_version[d])
                    => StepsOf(mmio_log[d], "") = FeaturesFirst(dev_version[d])

\* C37 witness: all four init functions have returned, with devices of both
\* versions.
C37_Witness ==
    /\ \A d \in Drivers : dev_version[d] # 0 /\ mmio_log[d] = InitWrites(d, dev_version[d])
    /\ \E d \in Drivers : dev_version[d] = 1
    /\ \E d \in Drivers : dev_version[d] = 2

\* The stores of request n of driver d, as the device may find them.
SubmitStore(d, n, w) == [drv |-> d, req |-> n, what |-> w]

DescriptorsOf(d) ==
    {w \in {"desc0", "desc1", "desc2"} :
        \E i \in 1..Len(SubmitStores(d)) : SubmitStores(d)[i] = w}

\* C38 (second half): whenever the device looks, an avail.idx it finds
\* advanced for a request comes with that request's whole descriptor chain
\* and its ring slot.
C38_IdxCoversWritten ==
    \A d \in SubmitDrivers, n \in 1..MaxSubmits :
        SubmitStore(d, n, "idx") \in dev_seen =>
            \A w \in DescriptorsOf(d) \cup {"slot"} : SubmitStore(d, n, w) \in dev_seen

\* C38 (block and GPU drivers): a device that finds QUEUE_NOTIFY written for
\* a request of do_blk_io or send_command finds avail.idx advanced for it.
C38_NotifyAfterIdxBarriered ==
    \A d \in {"blk", "gpu"}, n \in 1..MaxSubmits :
        SubmitStore(d, n, "notify") \in dev_seen =>
            SubmitStore(d, n, "idx") \in dev_seen

\* C38: for every request a driver submits, the device finds the chain and
\* the ring slot written before avail.idx is advanced, and avail.idx
\* advanced before QUEUE_NOTIFY is written.
C38_PublishOrder ==
    /\ C38_IdxCoversWritten
    /\ \A d \in SubmitDrivers, n \in 1..MaxSubmits :
            SubmitStore(d, n, "notify") \in dev_seen =>
                SubmitStore(d, n, "idx") \in dev_seen

\* The descriptors on the available ring between two indices, oldest first.
RECURSIVE Offered(_, _, _)
Offered(dev, from, count) ==
    IF count = 0 THEN <<>>
    ELSE <<dev.avail_ring[(from % dev.queue_size) + 1]>>
         \o Offered(dev, (from + 1) % IdxMod, count - 1)

RECURSIVE Returned(_, _, _)
Returned(dev, from, count) ==
    IF count = 0 THEN <<>>
    ELSE <<dev.used_ring[(from % dev.queue_size) + 1]>>
         \o Returned(dev, (from + 1) % IdxMod, count - 1)

\* C39: a poll puts the descriptor of each used entry it consumes back on
\* the available ring, in the order consumed, and after every poll
\* avail.idx minus last_used (in the 16-bit arithmetic of the two
\* indices) is the queue size.
C39_PollRepublishes ==
    [][VirtioInputPoll =>
        /\ (input_dev'.avail_idx - input_dev'.last_used) % IdxMod = input_dev'.queue_size
        /\ Offered(input_dev', input_dev.avail_idx, input_last'.consumed)
                = Returned(input_dev, input_dev.last_used, input_last'.consumed)]_vars

\* A poll has consumed used entries after avail.idx has wrapped.
C39_Witness ==
    /\ input_last.op = "poll"
    /\ input_last.consumed >= 2
    /\ input_dev.avail_idx < input_dev.last_used

\* The places of a command type among the commands sent.
SentAt(type) == {i \in 1..Len(gpu_cmds) : gpu_cmds[i].type = type}

\* C40: virtio_gpu_init sends no SET_SCANOUT; on an initialised GPU the
\* first flush sends it, before its TRANSFER_TO_HOST_2D, and it is sent
\* exactly once however many flushes follow.
C40_ScanoutOnceAtFirstFlush ==
    /\ gpu_flushes = 0 => SentAt("SET_SCANOUT") = {}
    /\ (gpu.gpu_initialized = 1 /\ gpu_flushes >= 1) =>
            /\ Cardinality(SentAt("SET_SCANOUT")) = 1
            /\ \A i \in SentAt("SET_SCANOUT") :
                    /\ \A j \in SentAt("TRANSFER_TO_HOST_2D") : i < j
                    /\ gpu_cmds[i + 1].type = "TRANSFER_TO_HOST_2D"
                    /\ \A j \in 1..(i - 1) :
                            gpu_cmds[j].type \in {"GET_DISPLAY_INFO", "RESOURCE_CREATE_2D",
                                                  "RESOURCE_ATTACH_BACKING"}

\* An initialised GPU has been flushed more than once.
C40_Witness ==
    /\ gpu.gpu_initialized = 1
    /\ gpu_flushes >= 2
    /\ Cardinality(SentAt("TRANSFER_TO_HOST_2D")) >= 2
    /\ SentAt("SET_SCANOUT") # {}

=============================================================================
